---------------------------- MODULE Spec2Model ----------------------------
(***************************************************************************)
(* AutoGrader scoring engine: ScoringAgent.execute with its helpers, and   *)
(* the orchestrator's criticism multiplier calculator.                     *)
(*                                                                         *)
(* Python floats are IEEE-754 binary64 values.  A float is modelled        *)
(* exactly, as <<sign, mantissa, exponent>> standing for                   *)
(* sign * mantissa * 2^exponent: sign is -1, 0 or 1, the mantissa is an    *)
(* odd natural number below 2^53 (or zero), kept as a little-endian        *)
(* sequence of limbs because it does not fit a machine integer of the      *)
(* model checker.  Every float operation of the source is the exact        *)
(* operation followed by rounding to the nearest float, ties to even, as   *)
(* the hardware does it.  The values of the program stay far away from     *)
(* overflow, underflow and subnormal numbers, which are not modelled, and  *)
(* no operation of the program yields a negative zero.                     *)
(***************************************************************************)
EXTENDS Integers, Sequences, FiniteSets, TLC

Abs(i) == IF i < 0 THEN -i ELSE i

Min(i, j) == IF i < j THEN i ELSE j

\* the element of a one-element set.  The(\{e(v) : v \in \{x\}\}) is
\* LET v == x IN e(v) with x evaluated once, before e(v)
The(S) == CHOOSE r \in S : TRUE

(***************************************************************************)
(* Natural numbers of any size: limb sequences, lowest limb first, no      *)
(* zero limb at the top; <<>> is zero.                                     *)
(***************************************************************************)
Base == 2^14

RECURSIVE BitLen(_)
BitLen(i) == IF i = 0 THEN 0 ELSE 1 + BitLen(i \div 2)

LimbBits == BitLen(Base) - 1

Limb(a, i) == IF i <= Len(a) THEN a[i] ELSE 0

\* the index of the highest nonzero limb among the first n, 0 when none
RECURSIVE NTop(_, _)
NTop(a, n) == IF n = 0 THEN 0 ELSE IF a[n] # 0 THEN n ELSE NTop(a, n - 1)

\* a without zero limbs at the top
NNorm(a0) == The({SubSeq(a, 1, NTop(a, Len(a))) : a \in {a0}})

RECURSIVE NFromInt(_)
NFromInt(i) == IF i = 0 THEN <<>> ELSE <<i % Base>> \o NFromInt(i \div Base)

RECURSIVE NToInt(_, _)
NToInt(a, i) == IF i > Len(a) THEN 0 ELSE a[i] + Base * NToInt(a, i + 1)

RECURSIVE NAddFrom(_, _, _, _)
NAddFrom(a, b, i, c) ==
    IF i > Len(a) /\ i > Len(b) THEN (IF c = 0 THEN <<>> ELSE <<c>>)
    ELSE The({<<t % Base>> \o NAddFrom(a, b, i + 1, t \div Base) :
                t \in {Limb(a, i) + Limb(b, i) + c}})

NAdd(a0, b0) == The({NAddFrom(a, b, 1, 0) : a \in {a0}, b \in {b0}})

RECURSIVE NSubFrom(_, _, _, _)
NSubFrom(a, b, i, c) ==
    IF i > Len(a) THEN <<>>
    ELSE The({<<t % Base>> \o NSubFrom(a, b, i + 1, IF t < 0 THEN 1 ELSE 0) :
                t \in {a[i] - Limb(b, i) - c}})

\* a - b, for a >= b
NSub(a0, b0) == The({NNorm(NSubFrom(a, b, 1, 0)) : a \in {a0}, b \in {b0}})

RECURSIVE NCmpFrom(_, _, _)
NCmpFrom(a, b, i) ==
    IF i = 0 THEN 0
    ELSE IF a[i] < b[i] THEN -1
    ELSE IF a[i] > b[i] THEN 1
    ELSE NCmpFrom(a, b, i - 1)

\* -1, 0, 1 as a < b, a = b, a > b
NCmp(a0, b0) ==
    The({IF Len(a) < Len(b) THEN -1
         ELSE IF Len(a) > Len(b) THEN 1
         ELSE NCmpFrom(a, b, Len(a)) : a \in {a0}, b \in {b0}})

RECURSIVE NMulSmallFrom(_, _, _, _)
NMulSmallFrom(a, k, i, c) ==
    IF i > Len(a) THEN (IF c = 0 THEN <<>> ELSE <<c>>)
    ELSE The({<<t % Base>> \o NMulSmallFrom(a, k, i + 1, t \div Base) :
                t \in {a[i] * k + c}})

\* a * k, for 0 <= k < Base
NMulSmall(a0, k0) ==
    The({IF k = 0 THEN <<>> ELSE IF k = 1 THEN a
         ELSE NMulSmallFrom(a, k, 1, 0) : a \in {a0}, k \in {k0}})

RECURSIVE NMulFrom(_, _, _)
NMulFrom(a, b, j) ==
    IF j > Len(b) THEN <<>>
    ELSE NAdd(NMulSmall(a, b[j]), <<0>> \o NMulFrom(a, b, j + 1))

NMul(a0, b0) == The({NNorm(NMulFrom(a, b, 1)) : a \in {a0}, b \in {b0}})

\* a * 2^s
NShl(a0, s0) ==
    The({IF a = <<>> THEN a
         ELSE [i \in 1..(s \div LimbBits) |-> 0] \o
              NMulSmall(a, 2^(s % LimbBits)) : a \in {a0}, s \in {s0}})

NBitLen(a0) ==
    The({IF a = <<>> THEN 0
         ELSE LimbBits * (Len(a) - 1) + BitLen(a[Len(a)]) : a \in {a0}})

\* from limb i down, with the remainder r of the limbs above and their
\* quotient limbs q: <<quotient, remainder>>
RECURSIVE NDivSmallFrom(_, _, _, _, _)
NDivSmallFrom(a, d, i, r, q) ==
    IF i = 0 THEN <<q, r>>
    ELSE The({NDivSmallFrom(a, d, i - 1, t % d, <<t \div d>> \o q) :
                t \in {r * Base + a[i]}})

\* <<a \div d, a % d>>, for 0 < d < Base
NDivSmall(a0, d0) ==
    The({<<NNorm(x[1]), x[2]>> :
            x \in {The({NDivSmallFrom(a, d, Len(a), 0, <<>>) :
                            a \in {a0}, d \in {d0}})}})

\* a \div 2^s
NShr(a0, s0) ==
    The({IF s \div LimbBits >= Len(a) THEN <<>>
         ELSE IF s % LimbBits = 0 THEN SubSeq(a, s \div LimbBits + 1, Len(a))
         ELSE NDivSmall(SubSeq(a, s \div LimbBits + 1, Len(a)),
                        2^(s % LimbBits))[1] : a \in {a0}, s \in {s0}})

\* bit i of a (bit 0 is the lowest)
NBit(a, i) == (Limb(a, i \div LimbBits + 1) \div 2^(i % LimbBits)) % 2

\* the bits 0 .. i-1 of a are all zero
NLowZero(a, i) ==
    /\ \A j \in 1..(i \div LimbBits) : Limb(a, j) = 0
    /\ Limb(a, i \div LimbBits + 1) % 2^(i % LimbBits) = 0

RECURSIVE Tz(_)
Tz(i) == IF i % 2 = 1 THEN 0 ELSE 1 + Tz(i \div 2)

\* the number of zero bits at the low end of a, from limb i on (a # 0)
RECURSIVE NTzFrom(_, _)
NTzFrom(a, i) == IF a[i] = 0 THEN LimbBits + NTzFrom(a, i + 1) ELSE Tz(a[i])

\* long division, one quotient limb: the estimate from the top limbs is
\* never too small and is lowered until it fits
RECURSIVE QFix(_, _, _)
QFix(r, b, q) == IF NCmp(NMulSmall(b, q), r) > 0 THEN QFix(r, b, q - 1) ELSE q

QDigit(r, b) ==
    The({QFix(r, b, IF est > Base - 1 THEN Base - 1 ELSE est) :
            est \in {(Limb(r, Len(b) + 1) * Base + Limb(r, Len(b)))
                        \div b[Len(b)]}})

\* from limb i of a down, with the remainder r of the limbs above and their
\* quotient limbs qs: <<quotient, remainder>>
RECURSIVE NDivFrom(_, _, _, _, _)
NDivFrom(a, b, i, r, qs) ==
    IF i = 0 THEN <<qs, r>>
    ELSE The({The({NDivFrom(a, b, i - 1, NSub(r1, NMulSmall(b, q)),
                            <<q>> \o qs) : q \in {QDigit(r1, b)}}) :
                r1 \in {NNorm(<<a[i]>> \o r)}})

\* <<a \div b, a % b = 0>>, for b # 0
NDiv(a0, b0) ==
    The({IF Len(b) = 1
         THEN The({<<x[1], x[2] = 0>> : x \in {NDivSmall(a, b[1])}})
         ELSE The({The({<<NNorm(x[1]), x[2] = <<>>>> :
                            x \in {NDivFrom(a1, b1, Len(a1), <<>>, <<>>)}}) :
                    a1 \in {NShl(a, LimbBits - BitLen(b[Len(b)]))},
                    b1 \in {NShl(b, LimbBits - BitLen(b[Len(b)]))}}) :
            a \in {a0}, b \in {b0}})

(***************************************************************************)
(* Float arithmetic (the float operators +, -, *, /, <, max, min, abs and  *)
(* round of the source).                                                   *)
(***************************************************************************)
\* significant bits of a float
MantissaBits == 53

Zero == <<0, <<>>, 0>>

\* sign * m * 2^e with the zero bits at the low end of m moved to e (m # 0)
Canon(sign, m0, e) ==
    The({IF m[1] % 2 = 1 THEN <<sign, m, e>>
         ELSE The({<<sign, NShr(m, z), e + z>> : z \in {NTzFrom(m, 1)}}) :
            m \in {m0}})

\* m rounded to the nearest multiple of 2^t, ties to even, in units of 2^t;
\* inexact: the value to round lies strictly between m and m + 1
RoundedShift(m, t, inexact) ==
    The({IF /\ NBit(m, t - 1) = 1
            /\ (inexact \/ ~NLowZero(m, t - 1) \/ (q # <<>> /\ q[1] % 2 = 1))
         THEN NAdd(q, <<1>>) ELSE q : q \in {NShr(m, t)}})

\* the float nearest to sign * m * 2^e, ties to even; inexact: the value to
\* round lies strictly between m * 2^e and (m + 1) * 2^e
Nearest(sign, m0, e, inexact) ==
    The({IF m = <<>> THEN Zero
         ELSE The({IF t <= 0 THEN Canon(sign, m, e)
                   ELSE Canon(sign, RoundedShift(m, t, inexact), e + t) :
                        t \in {NBitLen(m) - MantissaBits}}) :
            m \in {m0}})

\* float(i)
R(i) ==
    IF i = 0 THEN Zero
    ELSE Canon(IF i < 0 THEN -1 ELSE 1, NFromInt(Abs(i)), 0)

\* the order of the magnitudes of two nonzero floats: -1, 0, 1
MagCmp(x, y) ==
    The({IF px < py THEN -1
         ELSE IF px > py THEN 1
         ELSE NCmp(NShl(x[2], x[3] - Min(x[3], y[3])),
                   NShl(y[2], y[3] - Min(x[3], y[3]))) :
            px \in {NBitLen(x[2]) + x[3]}, py \in {NBitLen(y[2]) + y[3]}})

\* -1, 0, 1 as x < y, x == y, x > y
RCmp(x0, y0) ==
    The({IF x[1] # y[1] THEN (IF x[1] < y[1] THEN -1 ELSE 1)
         ELSE IF x[1] = 0 THEN 0
         ELSE x[1] * MagCmp(x, y) : x \in {x0}, y \in {y0}})

RNeg(x0) == The({<<-x[1], x[2], x[3]>> : x \in {x0}})

\* the sum of two nonzero floats: sx * a * 2^e + sy * b * 2^e
AddAligned(sx, a, sy, b, e) ==
    IF sx = sy THEN Nearest(sx, NAdd(a, b), e, FALSE)
    ELSE The({IF c = 0 THEN Zero
              ELSE IF c > 0 THEN Nearest(sx, NSub(a, b), e, FALSE)
              ELSE Nearest(sy, NSub(b, a), e, FALSE) : c \in {NCmp(a, b)}})

\* x + y
RAdd(x0, y0) ==
    The({IF x[1] = 0 THEN y
         ELSE IF y[1] = 0 THEN x
         ELSE The({AddAligned(x[1], a, y[1], b, Min(x[3], y[3])) :
                    a \in {NShl(x[2], x[3] - Min(x[3], y[3]))},
                    b \in {NShl(y[2], y[3] - Min(x[3], y[3]))}}) :
            x \in {x0}, y \in {y0}})

\* x - y
RSub(x, y) == RAdd(x, RNeg(y))

\* x * y
RMul(x0, y0) ==
    The({IF x[1] = 0 \/ y[1] = 0 THEN Zero
         ELSE Nearest(x[1] * y[1], NMul(x[2], y[2]), x[3] + y[3], FALSE) :
            x \in {x0}, y \in {y0}})

\* sign * (m / d) * 2^e as a float: the quotient is taken to two bits more
\* than a float keeps
Quotient(sign, m, d, e) ==
    The({The({Nearest(sign, q[1], e - s, ~q[2]) : q \in {NDiv(NShl(m, s), d)}}) :
            s \in {IF MantissaBits + 2 + NBitLen(d) - NBitLen(m) < 0 THEN 0
                   ELSE MantissaBits + 2 + NBitLen(d) - NBitLen(m)}})

\* x / y, for y # 0
RDiv(x0, y0) ==
    The({IF x[1] = 0 THEN Zero
         ELSE Quotient(x[1] * y[1], x[2], y[2], x[3] - y[3]) :
            x \in {x0}, y \in {y0}})

\* the float a decimal literal or a decimal string n/d denotes: the float
\* nearest to n/d
Frac(n, d) == RDiv(R(n), R(d))

RLt(x, y) == RCmp(x, y) < 0

RLe(x, y) == RCmp(x, y) <= 0

RMax(x0, y0) == The({IF RLt(x, y) THEN y ELSE x : x \in {x0}, y \in {y0}})

RMin(x0, y0) == The({IF RLt(y, x) THEN y ELSE x : x \in {x0}, y \in {y0}})

RAbs(x0) == The({<<Abs(x[1]), x[2], x[3]>> : x \in {x0}})

\* the natural number nearest to |x| * 10^k, ties to the even one: the
\* digits of x correctly rounded to k decimals (10^k < Base)
Scaled(x0, k) ==
    The({IF x[1] = 0 THEN <<>>
         ELSE IF x[3] >= 0 THEN NShl(NMulSmall(x[2], 10^k), x[3])
         ELSE The({RoundedShift(m, -x[3], FALSE) :
                        m \in {NMulSmall(x[2], 10^k)}}) :
            x \in {x0}})

\* Python round(x, k): the digits of x correctly rounded to k decimals,
\* read back as a float
Round(x0, k) ==
    The({The({IF n = <<>> THEN Zero
              ELSE Quotient(x[1], n, NFromInt(10^k), 0) :
                    n \in {Scaled(x, k)}}) :
            x \in {x0}})

\* Python round(x, 2)
Round2(x) == Round(x, 2)

\* Python round(x, 4)
Round4(x) == Round(x, 4)

(***************************************************************************)
(* Data model and configuration.                                           *)
(***************************************************************************)
\* CriterionEvaluation.severity: Literal["critical","important","minor","strength"]
Severities == {"critical", "important", "minor", "strength"}

\* ScoringAgent.__init__: the default severity_factors
DefaultSeverityFactors ==
    [critical |-> Frac(5, 10), important |-> Frac(8, 10),
     minor |-> Frac(95, 100), strength |-> R(1)]

\* self.severity_factors.get(evaluation.severity, 1.0)
severity_factor(factors, severity) ==
    IF severity \in DOMAIN factors THEN factors[severity] ELSE R(1)

\* _create_category_breakdown: the inline criterion -> category table
category_map ==
    [prd_quality |-> "Documentation", architecture_doc |-> "Documentation",
     readme |-> "Documentation",
     project_structure |-> "Code Quality", code_documentation |-> "Code Quality",
     code_principles |-> "Code Quality",
     config_management |-> "Configuration & Security",
     security_practices |-> "Configuration & Security",
     unit_tests |-> "Testing", error_handling |-> "Testing",
     test_results |-> "Testing",
     parameter_exploration |-> "Research & Analysis",
     analysis_notebook |-> "Research & Analysis",
     visualization |-> "Research & Analysis",
     usability |-> "UI/UX", interface_documentation |-> "UI/UX",
     git_practices |-> "Version Control", prompt_log |-> "Version Control"]

\* category_map.get(evaluation.criterion_id, 'Other')
category_of(criterion_id) ==
    IF criterion_id \in DOMAIN category_map THEN category_map[criterion_id]
    ELSE "Other"

(***************************************************************************)
(* models/core.py CriterionEvaluation and models/io.py ScoringInput: the   *)
(* constructors validate the declared bounds and raise a ValidationError   *)
(* that lists every offending field with the value it was given.           *)
(***************************************************************************)
\* mutant: an out-of-range score is accepted (to be clamped later)
criterion_evaluation_errors_score_accepted(e) ==
    LET offending ==
            {f \in {"weight", "severity"} :
                \/ f = "weight" /\ ~(RLe(R(0), e.weight) /\ RLe(e.weight, R(1)))
                \/ f = "severity" /\ e.severity \notin Severities}
    IN  [f \in offending |-> e[f]]

\* the errors of CriterionEvaluation(**e): field |-> offending input value
criterion_evaluation_errors(e) ==
    LET offending ==
            {f \in {"weight", "score", "severity"} :
                \/ f = "weight" /\ ~(RLe(R(0), e.weight) /\ RLe(e.weight, R(1)))
                \/ f = "score" /\ ~(RLe(R(0), e.score) /\ RLe(e.score, R(100)))
                \/ f = "severity" /\ e.severity \notin Severities}
    IN  [f \in offending |-> e[f]]

\* the CriterionEvaluation built from valid fields: validate_score rounds to
\* 2 decimals, validate_weight to 4
criterion_evaluation(e) ==
    [e EXCEPT !.score = Round2(@), !.weight = Round4(@)]

\* the errors of ScoringInput(evaluations, criticism_multiplier, self_grade)
\* over already constructed evaluations: gt=0.0, ge=0 le=100
scoring_input_errors(multiplier, grade) ==
    LET offending ==
            {f \in {"criticism_multiplier", "self_grade"} :
                \/ f = "criticism_multiplier" /\ ~RLt(R(0), multiplier)
                \/ f = "self_grade" /\ ~(0 <= grade /\ grade <= 100)}
    IN  [f \in offending |->
            IF f = "criticism_multiplier" THEN multiplier ELSE R(grade)]

\* index of the first evaluation whose constructor raises, 0 when none does
first_invalid(evals) ==
    LET bad == {i \in 1..Len(evals) :
                    DOMAIN criterion_evaluation_errors(evals[i]) # {}}
    IN  IF bad = {} THEN 0 ELSE CHOOSE i \in bad : \A j \in bad : i <= j

(***************************************************************************)
(* OrchestratorAgent._calculate_criticism_multiplier                       *)
(***************************************************************************)
\* mutant: the top band starts above 90 instead of at 90
calculate_criticism_multiplier_gt90(self_grade) ==
    IF self_grade > 90 THEN Frac(15, 10)
    ELSE IF self_grade >= 80 THEN Frac(12, 10)
    ELSE IF self_grade >= 70 THEN R(1)
    ELSE IF self_grade >= 60 THEN Frac(8, 10)
    ELSE Frac(6, 10)

calculate_criticism_multiplier(self_grade) ==
    IF self_grade >= 90 THEN Frac(15, 10)
    ELSE IF self_grade >= 80 THEN Frac(12, 10)
    ELSE IF self_grade >= 70 THEN R(1)
    ELSE IF self_grade >= 60 THEN Frac(8, 10)
    ELSE Frac(6, 10)

(***************************************************************************)
(* ScoringAgent._apply_criticism_multiplier                                *)
(***************************************************************************)
\* mutant: the penalty uses the bonus coefficient 0.3
apply_criticism_multiplier_penalty_03(score0, multiplier) ==
    The({IF RLe(R(100), score) THEN score
         ELSE IF RLt(R(1), multiplier) THEN
             LET penalty == RMul(RMul(RSub(R(100), score), RSub(multiplier, R(1))),
                                 Frac(3, 10))
             IN  RMax(R(0), RSub(score, penalty))
         ELSE IF RLt(multiplier, R(1)) THEN
             LET bonus == RMul(RMul(RSub(R(100), score), RSub(R(1), multiplier)),
                               Frac(3, 10))
             IN  RMin(R(100), RSub(score, RNeg(bonus)))
         ELSE score : score \in {score0}})

\* mutant: the bonus uses the penalty coefficient 0.2
apply_criticism_multiplier_bonus_02(score0, multiplier) ==
    The({IF RLe(R(100), score) THEN score
         ELSE IF RLt(R(1), multiplier) THEN
             LET penalty == RMul(RMul(RSub(R(100), score), RSub(multiplier, R(1))),
                                 Frac(2, 10))
             IN  RMax(R(0), RSub(score, penalty))
         ELSE IF RLt(multiplier, R(1)) THEN
             LET bonus == RMul(RMul(RSub(R(100), score), RSub(R(1), multiplier)),
                               Frac(2, 10))
             IN  RMin(R(100), RSub(score, RNeg(bonus)))
         ELSE score : score \in {score0}})

\* mutant: the penalty is added instead of subtracted
apply_criticism_multiplier_penalty_added(score0, multiplier) ==
    The({IF RLe(R(100), score) THEN score
         ELSE IF RLt(R(1), multiplier) THEN
             LET penalty == RMul(RMul(RSub(R(100), score), RSub(multiplier, R(1))),
                                 Frac(2, 10))
             IN  RMax(R(0), RAdd(score, penalty))
         ELSE IF RLt(multiplier, R(1)) THEN
             LET bonus == RMul(RMul(RSub(R(100), score), RSub(R(1), multiplier)),
                               Frac(3, 10))
             IN  RMin(R(100), RSub(score, RNeg(bonus)))
         ELSE score : score \in {score0}})

\* mutant: no early return for a score >= 100
apply_criticism_multiplier_no_perfect_return(score0, multiplier) ==
    The({IF RLt(R(1), multiplier) THEN
             LET penalty == RMul(RMul(RSub(R(100), score), RSub(multiplier, R(1))),
                                 Frac(2, 10))
             IN  RMax(R(0), RSub(score, penalty))
         ELSE IF RLt(multiplier, R(1)) THEN
             LET bonus == RMul(RMul(RSub(R(100), score), RSub(R(1), multiplier)),
                               Frac(3, 10))
             IN  RMin(R(100), RSub(score, RNeg(bonus)))
         ELSE score : score \in {score0}})

apply_criticism_multiplier(score0, multiplier) ==
    The({IF RLe(R(100), score) THEN score
         ELSE IF RLt(R(1), multiplier) THEN
             LET penalty == RMul(RMul(RSub(R(100), score), RSub(multiplier, R(1))),
                                 Frac(2, 10))
             IN  RMax(R(0), RSub(score, penalty))
         ELSE IF RLt(multiplier, R(1)) THEN
             LET bonus == RMul(RMul(RSub(R(100), score), RSub(R(1), multiplier)),
                               Frac(3, 10))
             IN  RMin(R(100), RSub(score, RNeg(bonus)))
         ELSE score : score \in {score0}})

\* mutant: the severity factor is not applied
adjusted_score_no_severity(evaluation, factors, multiplier) ==
    apply_criticism_multiplier(evaluation.score, multiplier)

\* execute, loop body: severity factor, then criticism multiplier
adjusted_score(evaluation, factors, multiplier) ==
    apply_criticism_multiplier(
        RMul(evaluation.score, severity_factor(factors, evaluation.severity)),
        multiplier)

\* execute, the for loop over input_data.evaluations (first i evaluations done)
RECURSIVE accumulate(_, _, _, _)
accumulate(evaluations, factors, multiplier, i) ==
    IF i = 0 THEN
        [weighted_sum |-> R(0), total_weight |-> R(0), adjusted_scores |-> <<>>]
    ELSE
        The({[weighted_sum |->
                    RAdd(acc.weighted_sum, RMul(adj, evaluations[i].weight)),
              total_weight |-> RAdd(acc.total_weight, evaluations[i].weight),
              adjusted_scores |-> Append(acc.adjusted_scores, adj)] :
                acc \in {accumulate(evaluations, factors, multiplier, i - 1)},
                adj \in {adjusted_score(evaluations[i], factors, multiplier)}})

\* mutant: the weighted sum is not divided by the total weight
weighted_average_not_normalised(weighted_sum, total_weight) ==
    IF RLt(R(0), total_weight) THEN weighted_sum ELSE R(0)

\* execute: final_score = weighted_sum / total_weight if total_weight > 0 else 0.0
weighted_average(weighted_sum, total_weight) ==
    IF RLt(R(0), total_weight) THEN RDiv(weighted_sum, total_weight) ELSE R(0)

\* mutant: no clamp
clamp_score_missing(final_score) == final_score

\* execute: final_score = max(0.0, min(100.0, final_score))
clamp_score(final_score) == RMax(R(0), RMin(R(100), final_score))

(***************************************************************************)
(* ScoringAgent._create_category_breakdown                                 *)
(***************************************************************************)
\* The interpreter the program runs on: TRUE when its builtin sum() adds
\* floats with compensation (CPython 3.12 and later), FALSE when it adds
\* them left to right.  It is fixed for a run.
VARIABLE compensated_sum

\* the builtin sum() over floats, CPython before 3.12: left to right
RECURSIVE sum_left_to_right(_, _)
sum_left_to_right(xs, i) ==
    IF i = 0 THEN R(0) ELSE RAdd(sum_left_to_right(xs, i - 1), xs[i])

\* the builtin sum() over floats, CPython 3.12 and later: Neumaier's
\* compensated summation, from item i on with the running total and the
\* compensation c, which is added at the end
RECURSIVE sum_neumaier(_, _, _, _)
sum_neumaier(xs, i, total0, c0) ==
    The({IF i > Len(xs) THEN (IF c = Zero THEN total ELSE RAdd(total, c))
         ELSE The({sum_neumaier(xs, i + 1, t,
                        RAdd(c, IF RLe(RAbs(xs[i]), RAbs(total))
                                THEN RAdd(RSub(total, t), xs[i])
                                ELSE RAdd(RSub(xs[i], t), total))) :
                    t \in {RAdd(total, xs[i])}}) :
            total \in {total0}, c \in {c0}})

\* sum(xs) from the int 0: which of the two the interpreter does is a
\* property of the build
builtin_sum(xs, compensated) ==
    IF xs = <<>> THEN R(0)
    ELSE IF compensated THEN sum_neumaier(xs, 2, RAdd(R(0), xs[1]), R(0))
    ELSE sum_left_to_right(xs, Len(xs))

\* sum(e.weight for e in category_evals), over the first i evaluations
sum_weight(category_evals, i) ==
    builtin_sum([k \in 1..i |-> category_evals[k].weight], compensated_sum)

\* mutant: the category average is taken over the severity-dampened scores
sum_score_weight_dampened(category_evals, i) ==
    builtin_sum([k \in 1..i |->
                    RMul(RMul(category_evals[k].score,
                              severity_factor(DefaultSeverityFactors,
                                              category_evals[k].severity)),
                         category_evals[k].weight)],
                compensated_sum)

\* sum(e.score * e.weight for e in category_evals), over the first i
sum_score_weight(category_evals, i) ==
    builtin_sum([k \in 1..i |-> RMul(category_evals[k].score,
                                     category_evals[k].weight)],
                compensated_sum)

\* mutant: categories[category] is overwritten instead of appended to
category_evals_of_overwritten(evaluations, category_name) ==
    LET all == SelectSeq(evaluations,
                         LAMBDA e : category_of(e.criterion_id) = category_name)
    IN  <<all[Len(all)]>>

\* the evaluations of one category, in input order
category_evals_of(evaluations, category_name) ==
    SelectSeq(evaluations, LAMBDA e : category_of(e.criterion_id) = category_name)

\* mutant: the entry is named after its first criterion, not its category
category_breakdown_named_by_criterion(category_name, category_evals) ==
    The({[category_name |-> category_evals[1].criterion_id,
          total_weight |-> total_weight,
          weighted_score |-> Round2(weighted_average(weighted_sum, total_weight)),
          criteria |-> category_evals] :
            total_weight \in {sum_weight(category_evals, Len(category_evals))},
            weighted_sum \in
                {sum_score_weight(category_evals, Len(category_evals))}})

\* one CategoryBreakdown, as passed to its constructor
category_breakdown(category_name, category_evals) ==
    The({[category_name |-> category_name,
          total_weight |-> total_weight,
          weighted_score |-> Round2(weighted_average(weighted_sum, total_weight)),
          criteria |-> category_evals] :
            total_weight \in {sum_weight(category_evals, Len(category_evals))},
            weighted_sum \in
                {sum_score_weight(category_evals, Len(category_evals))}})

create_category_breakdown(evaluations) ==
    LET categories ==
            {category_of(evaluations[i].criterion_id) : i \in 1..Len(evaluations)}
    IN  [c \in categories |->
            category_breakdown(c, category_evals_of(evaluations, c))]

\* mutant: total_weight gt=0.0 instead of ge=0.0
CategoryBreakdownValid_gt0(b) ==
    /\ RLt(R(0), b.total_weight) /\ RLe(b.total_weight, R(1))
    /\ RLe(R(0), b.weighted_score) /\ RLe(b.weighted_score, R(100))

\* models/core.py CategoryBreakdown: total_weight ge=0.0 le=1.0,
\* weighted_score ge=0.0 le=100.0; the constructor raises otherwise
CategoryBreakdownValid(b) ==
    /\ RLe(R(0), b.total_weight) /\ RLe(b.total_weight, R(1))
    /\ RLe(R(0), b.weighted_score) /\ RLe(b.weighted_score, R(100))

(***************************************************************************)
(* ScoringAgent._generate_comparison_message                               *)
(* The message is the record of the phrases the f-string is built from;    *)
(* points is the difference as "{:.1f}" prints it, in tenths.              *)
(***************************************************************************)

\* "{x:.1f}" for x >= 0: the digits of x correctly rounded to one decimal.
\* The text is given as the number of tenths it prints: 63 is "6.3".
Format1(x) == NToInt(Scaled(x, 1), 1)

\* mutant: the accuracy bands include their upper ends
accuracy_of_inclusive(difference) ==
    IF RLe(RAbs(difference), R(2)) THEN "very accurate"
    ELSE IF RLe(RAbs(difference), R(5)) THEN "quite accurate"
    ELSE IF RLe(RAbs(difference), R(10)) THEN "reasonably accurate"
    ELSE "somewhat inaccurate"

\* if abs(difference) < 2 ... else: accuracy
accuracy_of(difference) ==
    IF RLt(RAbs(difference), R(2)) THEN "very accurate"
    ELSE IF RLt(RAbs(difference), R(5)) THEN "quite accurate"
    ELSE IF RLt(RAbs(difference), R(10)) THEN "reasonably accurate"
    ELSE "somewhat inaccurate"

\* mutant: a difference of exactly 5 or -5 already counts as higher or lower
direction_of_inclusive(difference) ==
    IF RLe(R(5), difference) THEN
        [direction |-> "higher than your self-assessment by",
         points |-> Format1(difference),
         interpretation |-> "You were more modest than necessary."]
    ELSE IF RLe(difference, R(-5)) THEN
        [direction |-> "lower than your self-assessment by",
         points |-> Format1(RAbs(difference)),
         interpretation |-> "You may have overestimated some aspects."]
    ELSE
        [direction |-> "very close to your self-assessment",
         points |-> 0,
         interpretation |-> "Your self-evaluation was well-calibrated."]

\* if difference > 5 ... elif difference < -5 ... else: direction and
\* interpretation; points is the number printed inside direction
direction_of(difference) ==
    IF RLt(R(5), difference) THEN
        [direction |-> "higher than your self-assessment by",
         points |-> Format1(difference),
         interpretation |-> "You were more modest than necessary."]
    ELSE IF RLt(difference, R(-5)) THEN
        [direction |-> "lower than your self-assessment by",
         points |-> Format1(RAbs(difference)),
         interpretation |-> "You may have overestimated some aspects."]
    ELSE
        [direction |-> "very close to your self-assessment",
         points |-> 0,
         interpretation |-> "Your self-evaluation was well-calibrated."]

\* mutant: the strict and encouraging bands exclude their end at 1.2 and 0.8
multiplier_note_of_exclusive(criticism_multiplier) ==
    IF RLe(Frac(15, 10), criticism_multiplier)
        THEN " (evaluated with very strict standards due to high self-grade)"
    ELSE IF RLt(Frac(12, 10), criticism_multiplier)
        THEN " (evaluated with strict standards)"
    ELSE IF RLe(criticism_multiplier, Frac(6, 10))
        THEN " (evaluated with supportive standards)"
    ELSE IF RLt(criticism_multiplier, Frac(8, 10))
        THEN " (evaluated with encouraging standards)"
    ELSE ""

\* if criticism_multiplier >= 1.5 ... else: multiplier_note
multiplier_note_of(criticism_multiplier) ==
    IF RLe(Frac(15, 10), criticism_multiplier)
        THEN " (evaluated with very strict standards due to high self-grade)"
    ELSE IF RLe(Frac(12, 10), criticism_multiplier)
        THEN " (evaluated with strict standards)"
    ELSE IF RLe(criticism_multiplier, Frac(6, 10))
        THEN " (evaluated with supportive standards)"
    ELSE IF RLe(criticism_multiplier, Frac(8, 10))
        THEN " (evaluated with encouraging standards)"
    ELSE ""

generate_comparison_message(final_score, self_grade, criticism_multiplier) ==
    The({The({[accuracy |-> accuracy_of(difference),
               direction |-> clause.direction,
               points |-> clause.points,
               interpretation |-> clause.interpretation,
               multiplier_note |-> multiplier_note_of(criticism_multiplier)] :
                    clause \in {direction_of(difference)}}) :
            difference \in {RSub(final_score, R(self_grade))}})

(***************************************************************************)
(* State: one ScoringAgent, the arguments of one scoring run and its       *)
(* outcome.  A run either starts at the orchestrator (pc = "request": the  *)
(* multiplier is still to be derived from the self grade) or is a direct   *)
(* call of execute on a ScoringInput (pc = "ready"), or at the caller that  *)
(* is about to construct the ScoringInput from raw field values            *)
(* (pc = "raw").                                                           *)
(***************************************************************************)
VARIABLES
    severity_factors,       \* ScoringAgent.severity_factors (set by __init__)
    evaluations,            \* ScoringInput.evaluations
    criticism_multiplier,   \* ScoringInput.criticism_multiplier
    self_grade,             \* GradingRequest.self_grade / ScoringInput.self_grade
    frame,                  \* execute's locals at the end of its try block
    result,                 \* the AgentResult execute returned
    exception,              \* the exception a model constructor raised
    history,                \* the calls of execute that returned, in order
    pc,                     \* "raw" (before the constructors), "rejected"
                            \* (a constructor raised), "request", "multiplied"
                            \* (phase 3 done), "ready" (ScoringInput built),
                            \* "done" (execute returned)
    config,                 \* config/default.yaml as load_yaml finds it
    request,                \* the GradingRequest (its arguments before it is
                            \* constructed)
    file,                   \* what the validation skill finds at pdf_path
    caller,                 \* the caller of the workflow: its script, its
                            \* position, the exception a constructor raised
                            \* and the result an agent returned to it
    cache                   \* CachingSkill: the cache directory, the clock and
                            \* what the last get returned

scoring_vars == <<compensated_sum, severity_factors, evaluations,
                  criticism_multiplier, self_grade, frame, result, exception,
                  history, pc>>

workflow_vars == <<config, request, file, caller>>

vars == <<compensated_sum, severity_factors, evaluations, criticism_multiplier,
          self_grade, frame, result, exception, history, pc,
          config, request, file, caller, cache>>

\* criticism_multiplier before the orchestrator's phase 3 has run
NoMultiplier == R(0)

NoFrame == [adjusted_scores |-> <<>>, weighted_sum |-> R(0),
            total_weight |-> R(0), final_score |-> R(0)]

NoResult == [success |-> FALSE, output |-> "None", error |-> "not returned",
             metadata |-> [error_type |-> "None"]]

NoException == [type |-> "None", model |-> "None", errors |-> <<>>]

\* no orchestrator run: the variables of the workflow stay at these values
NoWorkflow ==
    /\ config = [exists |-> FALSE, sections |-> {}, evaluators |-> <<>>]
    /\ request = [pdf_path |-> "None", self_grade |-> 0, submission_id |-> "None"]
    /\ file = "None"
    /\ caller = [pc |-> "None"]

\* no call of the scoring agent outside the orchestrator's own
NoScoring ==
    /\ severity_factors = DefaultSeverityFactors
    /\ evaluations = <<>>
    /\ criticism_multiplier = NoMultiplier
    /\ self_grade = 0
    /\ frame = NoFrame
    /\ result = NoResult
    /\ exception = NoException
    /\ history = <<>>
    /\ pc = "None"

\* no cache in use
NoCache == cache = [pc |-> "None"]

\* pydantic's ValidationError for one model: every offending field with its
\* input value
validation_error(model, errors) ==
    [type |-> "ValidationError", model |-> model, errors |-> errors]

\* mutant: the severity-dampened scores are written back into the evaluations
grading_result_scores_written_back(evals, multiplier, grade, clamped, breakdown) ==
    [submission_id |-> "",
     self_grade |-> grade,
     final_score |-> Round2(Round2(clamped)),
     criticism_multiplier |-> multiplier,
     evaluations |->
        [i \in 1..Len(evals) |->
            [evals[i] EXCEPT !.score =
                RMul(@, severity_factor(DefaultSeverityFactors, evals[i].severity))]],
     breakdown |-> breakdown,
     comparison_message |-> generate_comparison_message(clamped, grade, multiplier),
     processing_time_seconds |-> R(0)]

\* GradingResult(...) as execute builds it; validate_final_score rounds again
grading_result(evals, multiplier, grade, clamped, breakdown) ==
    [submission_id |-> "",
     self_grade |-> grade,
     final_score |-> Round2(Round2(clamped)),
     criticism_multiplier |-> multiplier,
     evaluations |-> evals,
     breakdown |-> breakdown,
     comparison_message |-> generate_comparison_message(clamped, grade, multiplier),
     processing_time_seconds |-> R(0)]

\* AgentResult.success_result(output=grading_result, metadata={...})
success_result(output, clamped, grade, total_weight, num_categories) ==
    [success |-> TRUE,
     output |-> output,
     error |-> "None",
     metadata |->
        [final_score |-> clamped,
         difference |-> RSub(clamped, R(grade)),
         total_weight |-> total_weight,
         num_categories |-> num_categories]]

\* BaseAgent.handle_error(e), e the ValidationError of a model constructor
handle_error ==
    [success |-> FALSE, output |-> "None", error |-> "ValidationError",
     metadata |-> [error_type |-> "ValidationError"]]

\* execute after the for loop: the final score, the breakdown, the result
execute_tail(acc0, evals, multiplier, grade) ==
    The({The({The({
        [frame |-> [adjusted_scores |-> acc.adjusted_scores,
                    weighted_sum |-> acc.weighted_sum,
                    total_weight |-> acc.total_weight,
                    final_score |-> final_score],
         result |->
            IF \E c \in DOMAIN breakdown : ~CategoryBreakdownValid(breakdown[c])
            THEN handle_error
            ELSE success_result(
                    grading_result(evals, multiplier, grade, clamped, breakdown),
                    clamped, grade, acc.total_weight,
                    Cardinality(DOMAIN breakdown))] :
            clamped \in {clamp_score(final_score)}}) :
            final_score \in
                {weighted_average(acc.weighted_sum, acc.total_weight)}}) :
            acc \in {acc0}, breakdown \in {create_category_breakdown(evals)}})

\* the AgentResult of ScoringAgent.execute on these arguments
execute(factors, evals, multiplier, grade) ==
    execute_tail(accumulate(evals, factors, multiplier, Len(evals)),
                 evals, multiplier, grade)

\* The caller builds the CriterionEvaluation objects, in list order, and then
\* the ScoringInput.  The first constructor that finds an offending field
\* raises; nothing is scored then.
Construct ==
    /\ pc = "raw"
    /\ LET i == first_invalid(evaluations)
           input_errors == scoring_input_errors(criticism_multiplier, self_grade)
       IN  IF i # 0 THEN
                /\ exception' = validation_error(
                        "CriterionEvaluation",
                        criterion_evaluation_errors(evaluations[i]))
                /\ pc' = "rejected"
                /\ UNCHANGED evaluations
           ELSE IF DOMAIN input_errors # {} THEN
                /\ exception' = validation_error("ScoringInput", input_errors)
                /\ pc' = "rejected"
                /\ UNCHANGED evaluations
           ELSE
                /\ evaluations' =
                        [k \in 1..Len(evaluations) |->
                            criterion_evaluation(evaluations[k])]
                /\ pc' = "ready"
                /\ UNCHANGED exception
    /\ UNCHANGED <<compensated_sum, workflow_vars, cache>>
    /\ UNCHANGED <<severity_factors, criticism_multiplier, self_grade, frame,
                   result, history>>

\* OrchestratorAgent.execute, phase 3: derive the multiplier from the self grade
CalculateMultiplier ==
    /\ pc = "request"
    /\ criticism_multiplier' = calculate_criticism_multiplier(self_grade)
    /\ pc' = "multiplied"
    /\ UNCHANGED <<compensated_sum, workflow_vars, cache>>
    /\ UNCHANGED <<severity_factors, evaluations, self_grade, frame, result,
                   exception, history>>

\* ScoringAgent.execute(ScoringInput(evaluations, criticism_multiplier, self_grade))
Execute ==
    /\ pc \in {"ready", "multiplied"}
    /\ \E r \in {execute(severity_factors, evaluations, criticism_multiplier,
                         self_grade)} :
           /\ frame' = r.frame
           /\ result' = r.result
           /\ history' = Append(history,
                    [severity_factors |-> severity_factors,
                     evaluations |-> evaluations,
                     criticism_multiplier |-> criticism_multiplier,
                     self_grade |-> self_grade,
                     result |-> r.result])
    /\ pc' = "done"
    /\ UNCHANGED <<compensated_sum, workflow_vars, cache>>
    /\ UNCHANGED <<severity_factors, evaluations, criticism_multiplier, self_grade,
                   exception>>

(***************************************************************************)
(* Inputs.                                                                 *)
(***************************************************************************)
\* longest evaluation list drawn from ListEvaluations
MaxEvals == 2

\* an injected severity_factors table: two keys overridden, the others absent
OverrideSeverityFactors == [critical |-> Frac(25, 100), strength |-> Frac(12, 10)]

FactorTables == {DefaultSeverityFactors, OverrideSeverityFactors}

\* a criterion category_map knows and one it does not
CriterionIds == {"prd_quality", "testing"}

ListWeights == {R(0), Frac(6, 10)}

\* (score, severity) as the evaluation oracle returns them
ListOutcomes == {<<R(90), "minor">>, <<R(70), "important">>}

ListEvaluations ==
    {[criterion_id |-> c, weight |-> w, score |-> o[1], severity |-> o[2]] :
        c \in CriterionIds, w \in ListWeights, o \in ListOutcomes}

EvaluationLists == UNION {[1..n -> ListEvaluations] : n \in 0..MaxEvals}

\* tests/unit/agents/test_scoring_agent.py: the sample_evaluations fixture
sample_evaluations ==
    <<[criterion_id |-> "prd_quality", weight |-> Frac(2, 10), score |-> R(90),
       severity |-> "strength"],
      [criterion_id |-> "code_quality", weight |-> Frac(3, 10), score |-> R(80),
       severity |-> "minor"],
      [criterion_id |-> "testing", weight |-> Frac(5, 10), score |-> R(70),
       severity |-> "important"]>>

\* the same three evaluations, every severity "strength"
all_strength_evaluations ==
    [i \in DOMAIN sample_evaluations |->
        [sample_evaluations[i] EXCEPT !.severity = "strength"]]

\* three criteria of one category whose weights 0.33, 0.56, 0.11 add up to
\* 1.0000000000000002 left to right and to 1.0 with compensation
one_category_evaluations ==
    <<[criterion_id |-> "prd_quality", weight |-> Frac(33, 100), score |-> R(90),
       severity |-> "strength"],
      [criterion_id |-> "architecture_doc", weight |-> Frac(56, 100),
       score |-> R(80), severity |-> "minor"],
      [criterion_id |-> "readme", weight |-> Frac(11, 100), score |-> R(70),
       severity |-> "important"]>>

\* three criteria whose adjusted scores under multiplier 1.2 average to
\* 86.99999999999999
band_edge_evaluations ==
    <<[criterion_id |-> "prd_quality", weight |-> Frac(1, 10), score |-> R(65),
       severity |-> "strength"],
      [criterion_id |-> "unit_tests", weight |-> Frac(2, 10), score |-> R(90),
       severity |-> "strength"],
      [criterion_id |-> "usability", weight |-> Frac(7, 10), score |-> R(90),
       severity |-> "strength"]>>

FixtureLists ==
    {sample_evaluations, all_strength_evaluations, one_category_evaluations}

\* calls whose final score misses a whole number by the last bit of the
\* float: 86.99999999999999 against self grade 82, and 5.999999999999999
\* against self grades 4 and 11
BandEdgeCalls ==
    {[evaluations |-> band_edge_evaluations,
      criticism_multiplier |-> Frac(12, 10), self_grade |-> 82]} \cup
    {[evaluations |-> <<[criterion_id |-> "prd_quality", weight |-> R(1),
                         score |-> R(0), severity |-> "strength"]>>,
      criticism_multiplier |-> Frac(8, 10), self_grade |-> g] : g \in {4, 11}}

\* (self_grade, criticism_multiplier) of the list calls
ListCalls == {<<55, Frac(6, 10)>>, <<75, R(1)>>, <<95, Frac(15, 10)>>}

\* one-evaluation lists: every tenth score, every severity, weight 1.0
SingleLists ==
    {<<[criterion_id |-> "prd_quality", weight |-> R(1), score |-> R(10 * s),
        severity |-> v]>> : s \in 0..10, v \in Severities}

Multipliers ==
    {Frac(5, 10), Frac(6, 10), Frac(8, 10), R(1), Frac(12, 10), Frac(15, 10),
     R(2), R(6)}

SingleGrades == {0, 85, 100}

\* one evaluation of score 82.5 that is not dampened: narrate(82.5, 85, 1.0)
half_point_evaluations ==
    <<[criterion_id |-> "prd_quality", weight |-> R(1), score |-> Frac(825, 10),
       severity |-> "strength"]>>

\* one evaluation whose dampened score 84.21 * 0.95 = 79.99949999999998
\* rounds to 80.0
rounding_gap_evaluations ==
    <<[criterion_id |-> "prd_quality", weight |-> R(1), score |-> Frac(8421, 100),
       severity |-> "minor"]>>

\* multipliers strictly inside the annotation bands that no self grade yields
BandMultipliers == {Frac(7, 10), Frac(9, 10), Frac(11, 10), Frac(13, 10)}

\* Field values as a caller may hand them to the constructors: in range,
\* on the bounds, just outside them, and with more decimals than are kept.
RawScores == {Frac(-1, 100), R(0), Frac(79996, 1000), R(100), Frac(10001, 100)}

RawWeights == {Frac(-1, 10), R(0), Frac(50004, 100000), R(1), Frac(11, 10)}

RawSeverities == {"minor", "critical", "blocker"}

RawEvaluations ==
    {[criterion_id |-> "prd_quality", weight |-> w, score |-> x, severity |-> v] :
        w \in RawWeights, x \in RawScores, v \in RawSeverities}

valid_evaluation ==
    [criterion_id |-> "testing", weight |-> Frac(5, 10), score |-> R(90),
     severity |-> "minor"]

RawLists ==
    {<<e>> : e \in RawEvaluations} \cup {<<valid_evaluation, e>> : e \in RawEvaluations}

RawMultipliers == {Frac(-5, 10), R(0), R(1)}

RawGrades == {-1, 0, 100, 101}

\* the raw arguments pass every constructor
Constructible(evals, multiplier, grade) ==
    /\ first_invalid(evals) = 0
    /\ DOMAIN scoring_input_errors(multiplier, grade) = {}

Init ==
    /\ compensated_sum \in BOOLEAN
    /\ severity_factors \in FactorTables
    /\ \/ /\ pc = "ready"
          /\ evaluations \in EvaluationLists \cup FixtureLists
          /\ \E call \in ListCalls :
                self_grade = call[1] /\ criticism_multiplier = call[2]
       \/ /\ pc = "ready"
          /\ evaluations \in SingleLists
          /\ criticism_multiplier \in Multipliers
          /\ self_grade \in SingleGrades
       \/ /\ pc = "ready"
          /\ evaluations \in FixtureLists \cup
                {half_point_evaluations, rounding_gap_evaluations}
          /\ criticism_multiplier \in Multipliers \cup BandMultipliers
          /\ self_grade \in SingleGrades
       \/ /\ pc = "ready"
          /\ \E input \in BandEdgeCalls :
                /\ evaluations = input.evaluations
                /\ criticism_multiplier = input.criticism_multiplier
                /\ self_grade = input.self_grade
       \/ /\ pc = "request"
          /\ evaluations \in FixtureLists
          /\ self_grade \in 0..100
          /\ criticism_multiplier = NoMultiplier
       \/ /\ pc = "raw"
          /\ evaluations \in RawLists
          /\ criticism_multiplier \in RawMultipliers
          /\ self_grade \in RawGrades
    /\ frame = NoFrame
    /\ result = NoResult
    /\ exception = NoException
    /\ history = <<>>
    /\ NoWorkflow
    /\ NoCache

Next == Construct \/ CalculateMultiplier \/ Execute

Spec == Init /\ [][Next]_vars

(***************************************************************************)
(* One agent serving several calls of execute, one after the other: the    *)
(* agent object (its severity_factors) outlives a call, the ScoringInput   *)
(* and execute's locals do not.                                            *)
(***************************************************************************)
\* calls of execute one agent serves
MaxCalls == 3

\* the ScoringInputs of the calls: two submissions' evaluations, no
\* evaluations, and the one-evaluation list
CallInputs ==
    {[evaluations |-> e, criticism_multiplier |-> c[2], self_grade |-> c[1]] :
        e \in FixtureLists \cup {<<>>, half_point_evaluations},
        c \in {<<75, R(1)>>, <<95, Frac(15, 10)>>}}

\* the caller hands the agent the next ScoringInput
NextCall ==
    /\ pc = "done"
    /\ Len(history) < MaxCalls
    /\ \E input \in CallInputs :
          /\ evaluations' = input.evaluations
          /\ criticism_multiplier' = input.criticism_multiplier
          /\ self_grade' = input.self_grade
    /\ frame' = NoFrame
    /\ result' = NoResult
    /\ pc' = "ready"
    /\ UNCHANGED <<compensated_sum, workflow_vars, cache>>
    /\ UNCHANGED <<severity_factors, exception, history>>

InitCalls ==
    /\ compensated_sum \in BOOLEAN
    /\ severity_factors \in FactorTables
    /\ \E input \in CallInputs :
          /\ evaluations = input.evaluations
          /\ criticism_multiplier = input.criticism_multiplier
          /\ self_grade = input.self_grade
    /\ pc = "ready"
    /\ frame = NoFrame
    /\ result = NoResult
    /\ exception = NoException
    /\ history = <<>>
    /\ NoWorkflow
    /\ NoCache

NextCalls == Execute \/ NextCall

SpecCalls == InitCalls /\ [][NextCalls]_vars

(***************************************************************************)
(* CachingSkill: a directory of JSON files shared by its instances.        *)
(***************************************************************************)
\* the clock is read up to this time
MaxClock == 3

\* the keys (file paths), none of which changes its file state
Keys == {"a.pdf", "b.pdf"}

\* the values handed to set: Python objects, by type and printed content
Values ==
    {[type |-> "dict", text |-> "{'pages': 3}"],
     [type |-> "tuple", text |-> "1, 2"],
     [type |-> "dict with int keys", text |-> "{1: 'x'}"],
     [type |-> "dict with tuple keys", text |-> "{(1, 2): 'x'}"]}

NoneValue == [type |-> "NoneType", text |-> "None"]

\* ttl_seconds of the instances that share the cache directory
ttl_seconds == <<1, 2>>

Instances == DOMAIN ttl_seconds

\* CachingSkill._generate_cache_key: the digest of the absolute path and the
\* mtime of a file that exists and does not change
generate_cache_key(key) == "sha256(/work/" \o key \o "_1700000000.0)[:16]"

CacheFiles == {generate_cache_key(key) : key \in Keys}

\* json.dump(..., default=str) raises TypeError on a dict key that is not a
\* str, int, float, bool or None
json_serializable(value) == value.type # "dict with tuple keys"

\* the JSON text json.dump(value, default=str) writes
json_dump(value) ==
    CASE value.type \in {"list", "tuple"} -> [json |-> "array", text |-> value.text]
      [] value.type \in {"str", "Path"} -> [json |-> "string", text |-> value.text]
      [] value.type = "NoneType" -> [json |-> "null", text |-> value.text]
      [] value.type = "dict with int keys" -> [json |-> "object", text |-> "{'1': 'x'}"]
      [] OTHER -> [json |-> "object", text |-> value.text]

\* the Python object json.load builds from a JSON text
json_load(document) ==
    CASE document.json = "array" -> [type |-> "list", text |-> document.text]
      [] document.json = "string" -> [type |-> "str", text |-> document.text]
      [] document.json = "null" -> NoneValue
      [] OTHER -> [type |-> "dict", text |-> document.text]

\* no cache file at a path
NoFile == [exists |-> FALSE, complete |-> FALSE, timestamp |-> 0,
           data |-> json_dump(NoneValue)]

\* the cache file set leaves behind: open(..., 'w') truncates, json.dump
\* writes the entry, or raises part of the way through
written_file(value, now) ==
    IF json_serializable(value)
        THEN [exists |-> TRUE, complete |-> TRUE, timestamp |-> now,
              data |-> json_dump(value)]
    ELSE [exists |-> TRUE, complete |-> FALSE, timestamp |-> 0,
          data |-> json_dump(NoneValue)]

\* get: the file's age is over the ttl of the instance
expired(ttl, cache_file, now) ==
    /\ ttl > 0
    /\ now - cache_file.timestamp > ttl

\* what get returns for the cache file it finds
get(ttl, cache_file, now) ==
    IF ~cache_file.exists THEN NoneValue
    ELSE IF ~cache_file.complete THEN NoneValue
    ELSE IF expired(ttl, cache_file, now) THEN NoneValue
    ELSE json_load(cache_file.data)

NoSet == [live |-> FALSE, value |-> NoneValue, time |-> 0]

NoGet == [key |-> "None", instance |-> 0, returned |-> NoneValue, age |-> 0,
          live |-> FALSE, value |-> NoneValue, removed |-> FALSE]

\* a set is forgotten once its file is unlinked
forget(sets, unlinked) ==
    [key \in Keys |->
        IF generate_cache_key(key) \in unlinked
            THEN [sets[key] EXCEPT !.live = FALSE]
        ELSE sets[key]]

\* CachingSkill.set
Set(instance, key, value) ==
    /\ cache.pc = "open"
    /\ cache' = [cache EXCEPT
            !.files[generate_cache_key(key)] = written_file(value, cache.now),
            !.last_set[key] = [live |-> TRUE, value |-> value, time |-> cache.now]]
    /\ UNCHANGED <<scoring_vars, workflow_vars>>

\* CachingSkill.get
Get(instance, key) ==
    /\ cache.pc = "open"
    /\ LET cache_file == cache.files[generate_cache_key(key)]
           unlink == /\ cache_file.exists
                     /\ cache_file.complete
                     /\ expired(ttl_seconds[instance], cache_file, cache.now)
       IN  cache' = [cache EXCEPT
               !.files[generate_cache_key(key)] = IF unlink THEN NoFile ELSE @,
               !.last_set = IF unlink
                            THEN forget(@, {generate_cache_key(key)}) ELSE @,
               !.last_get = [key |-> key,
                             instance |-> instance,
                             returned |-> get(ttl_seconds[instance], cache_file,
                                               cache.now),
                             age |-> cache.now - cache.last_set[key].time,
                             live |-> cache.last_set[key].live,
                             value |-> cache.last_set[key].value,
                             removed |-> ~cache_file.exists \/ unlink]]
    /\ UNCHANGED <<scoring_vars, workflow_vars>>

\* CachingSkill.delete
Delete(instance, key) ==
    /\ cache.pc = "open"
    /\ cache' = [cache EXCEPT
            !.files[generate_cache_key(key)] = NoFile,
            !.last_set = forget(@, {generate_cache_key(key)})]
    /\ UNCHANGED <<scoring_vars, workflow_vars>>

\* CachingSkill.clear
Clear(instance) ==
    /\ cache.pc = "open"
    /\ cache' = [cache EXCEPT
            !.files = [cache_key \in CacheFiles |-> NoFile],
            !.last_set = forget(@, CacheFiles)]
    /\ UNCHANGED <<scoring_vars, workflow_vars>>

\* CachingSkill.clear_expired: unlinks the files it cannot read as well
ClearExpired(instance) ==
    /\ cache.pc = "open"
    /\ LET unlinked ==
               {cache_key \in CacheFiles :
                   /\ cache.files[cache_key].exists
                   /\ \/ ~cache.files[cache_key].complete
                      \/ cache.now - cache.files[cache_key].timestamp >
                            ttl_seconds[instance]}
       IN  cache' = [cache EXCEPT
               !.files = [cache_key \in CacheFiles |->
                             IF cache_key \in unlinked THEN NoFile
                             ELSE cache.files[cache_key]],
               !.last_set = forget(@, unlinked)]
    /\ UNCHANGED <<scoring_vars, workflow_vars>>

\* time.time() moves on
Tick ==
    /\ cache.pc = "open"
    /\ cache.now < MaxClock
    /\ cache' = [cache EXCEPT !.now = @ + 1]
    /\ UNCHANGED <<scoring_vars, workflow_vars>>

InitCache ==
    /\ compensated_sum = FALSE
    /\ NoScoring
    /\ NoWorkflow
    /\ cache = [pc |-> "open",
                now |-> 0,
                files |-> [cache_key \in CacheFiles |-> NoFile],
                last_set |-> [key \in Keys |-> NoSet],
                last_get |-> NoGet]

NextCache ==
    \/ \E instance \in Instances, key \in Keys, value \in Values :
          Set(instance, key, value)
    \/ \E instance \in Instances, key \in Keys : Get(instance, key)
    \/ \E instance \in Instances, key \in Keys : Delete(instance, key)
    \/ \E instance \in Instances : Clear(instance)
    \/ \E instance \in Instances : ClearExpired(instance)
    \/ Tick

SpecCache == InitCache /\ [][NextCache]_vars

(***************************************************************************)
(* The callers of the workflow.  A caller builds a GradingRequest and then *)
(* either constructs the orchestrator to run it (the integration tests)    *)
(* or hands it to a ValidationAgent of its own (the unit tests of the      *)
(* agent).                                                                 *)
(***************************************************************************)
\* the criteria of the evaluators in config/default.yaml, in file order
EvaluatorIds == <<"unit_tests", "prd_quality", "code_documentation">>

\* the weights of these evaluators, in tenths: lists that sum to 1.0 and
\* lists that do not
EvaluatorWeights == {<<>>, <<10>>, <<6, 4>>, <<5, 3, 2>>, <<5, 3>>, <<6, 6>>}

\* the evaluators section of config/default.yaml: every entry has the three
\* required fields of EvaluatorConfig
evaluator_configs(weights) ==
    [i \in DOMAIN weights |->
        [criterion |-> EvaluatorIds[i],
         weight |-> Frac(weights[i], 10),
         prompt_template |-> "prompts/" \o EvaluatorIds[i] \o "_evaluation.txt"]]

\* the directory ConfigLoader._find_project_root returns
project_root == "/work"

\* What load_yaml finds at config/default.yaml: no file, or a mapping with
\* an evaluators section.  A file may also have sections that are not
\* fields of AutoGraderConfig.  The environment has no AUTOGRADER_ variable
\* that would override a value of the file.
ConfigFiles ==
    {[exists |-> FALSE, sections |-> {}, evaluators |-> <<>>]} \cup
    {[exists |-> TRUE, sections |-> {"evaluators"} \cup more,
      evaluators |-> evaluator_configs(weights)] :
        more \in {{}, {"reporter", "cost_tracking"}},
        weights \in EvaluatorWeights}

\* the fields of AutoGraderConfig
AutoGraderConfigFields ==
    {"orchestrator", "parser", "evaluators", "scoring", "reporting", "llm"}

RequestArguments ==
    {[pdf_path |-> [stem |-> "submission", suffix |-> suffix, exists |-> exists],
      self_grade |-> grade,
      submission_id |-> "None"] :
        suffix \in {".pdf", ".PDF", ".txt"}, exists \in BOOLEAN,
        grade \in {-10, 45, 85, 100, 105}}

\* what the validation skill finds at pdf_path when it runs
FileStates ==
    {"valid", "absent", "directory", "too_small", "large", "not_pdf",
     "unreadable", "vanished"}

\* what the caller goes on to do with the request
Scripts == {"workflow", "validation"}

(***************************************************************************)
(* ConfigLoader                                                            *)
(***************************************************************************)
\* f"{x:.2f}"
format_2f(x) ==
    The({ToString(hundredths \div 100) \o "."
            \o ToString((hundredths \div 10) % 10) \o ToString(hundredths % 10) :
            hundredths \in {NToInt(Scaled(x, 2), 1)}})

\* AutoGraderConfig.validate_evaluators: the field the model rejects, with
\* the text of the ValueError
auto_grader_config_errors(evaluators, compensated) ==
    LET total_weight ==
            builtin_sum([i \in DOMAIN evaluators |-> evaluators[i].weight],
                        compensated)
        offending ==
            IF evaluators # <<>>
               /\ ~(RLe(Frac(95, 100), total_weight)
                        /\ RLe(total_weight, Frac(105, 100)))
            THEN {"evaluators"} ELSE {}
    IN  [f \in offending |->
            "Evaluator weights should sum to ~1.0, got "
                \o format_2f(total_weight)]

\* ConfigLoader.load_config(): the AutoGraderConfig built from
\* config/default.yaml, which keeps the fields of the model and drops every
\* other section of the file, or the exception that load_yaml or the model
\* raises
load_config(config_file, compensated) ==
    IF ~config_file.exists
    THEN [raised |-> TRUE,
          exception |->
              [type |-> "FileNotFoundError", model |-> "None",
               errors |-> <<"Configuration file not found: " \o project_root
                               \o "/config/default.yaml">>]]
    ELSE LET errors == auto_grader_config_errors(config_file.evaluators,
                                                 compensated)
         IN  IF DOMAIN errors # {}
             THEN [raised |-> TRUE,
                   exception |-> validation_error("AutoGraderConfig", errors)]
             ELSE [raised |-> FALSE,
                   system_config |->
                       [type |-> "AutoGraderConfig",
                        attributes |-> AutoGraderConfigFields,
                        evaluators |-> config_file.evaluators]]

(***************************************************************************)
(* GradingRequest, DataValidationSkill, ValidationAgent                    *)
(***************************************************************************)
\* BaseAgent.handle_error(e): error is str(e), error_type the class of e
handle_exception(type, text) ==
    [success |-> FALSE, output |-> "None", error |-> text,
     metadata |-> [error_type |-> type]]

\* str(e) of the AttributeError of a missing attribute
no_attribute(type, attribute) ==
    "'" \o type \o "' object has no attribute '" \o attribute \o "'"

\* word in text
Contains(text, word) ==
    \E k \in 1..(Len(text) - Len(word) + 1) :
        SubSeq(text, k, k + Len(word) - 1) = word

\* str.lower(), over the first n characters
RECURSIVE lower_from(_, _)
lower_from(text, n) ==
    IF n = 0 THEN ""
    ELSE LET UpperCase == "ABCDEFGHIJKLMNOPQRSTUVWXYZ"
             LowerCase == "abcdefghijklmnopqrstuvwxyz"
             c == SubSeq(text, n, n)
             at == {k \in 1..Len(UpperCase) : SubSeq(UpperCase, k, k) = c}
         IN  lower_from(text, n - 1) \o
                (IF at = {} THEN c
                 ELSE SubSeq(LowerCase, The(at), The(at)))

str_lower(text) == lower_from(text, Len(text))

\* str.lower() on the suffixes in use
suffix_lower(suffix) == str_lower(suffix)

\* str(pdf_path)
path_text(pdf_path) == pdf_path.stem \o pdf_path.suffix

\* the fields GradingRequest(pdf_path=..., self_grade=...) rejects:
\* validate_pdf_path and ge=0, le=100
grading_request_errors(args) ==
    LET offending ==
            {f \in {"pdf_path", "self_grade"} :
                \/ f = "pdf_path" /\ (\/ ~args.pdf_path.exists
                                      \/ suffix_lower(args.pdf_path.suffix) # ".pdf")
                \/ f = "self_grade" /\ (args.self_grade < 0 \/ args.self_grade > 100)}
    IN  [f \in offending |->
            IF f = "self_grade"
                THEN (IF args.self_grade < 0 THEN "greater_than_equal"
                      ELSE "less_than_equal")
            ELSE IF ~args.pdf_path.exists
                THEN "PDF file not found: " \o path_text(args.pdf_path)
            ELSE "File must be a PDF, got " \o args.pdf_path.suffix]

\* the GradingRequest built from valid arguments: model_post_init
grading_request(args) ==
    [args EXCEPT !.submission_id = IF @ = "None" THEN args.pdf_path.stem ELSE @]

\* ValidationResult.add_error
add_error(validation, error) ==
    [validation EXCEPT !.is_valid = FALSE, !.errors = Append(@, error)]

\* ValidationResult.add_warning
add_warning(validation, warning) ==
    [validation EXCEPT !.warnings = Append(@, warning)]

ValidationResult == [is_valid |-> TRUE, errors |-> <<>>, warnings |-> <<>>]

\* DataValidationSkill.min_pdf_size_bytes
min_pdf_size_bytes == 1024

\* DataValidationSkill.max_pdf_size_mb
max_pdf_size_mb == 100

\* pdf_path.stat().st_size of the file the validation skill finds
file_size(found) ==
    IF found = "too_small" THEN 140
    ELSE IF found = "large" THEN 120 * 1024 * 1024
    ELSE 4096

\* f"{x:.1f}"
format_1f(x) ==
    The({ToString(tenths \div 10) \o "." \o ToString(tenths % 10) :
            tenths \in {Format1(x)}})

\* DataValidationSkill.validate_pdf_input on a path whose stat() succeeds
validate_pdf_input(pdf_path, found) ==
    LET result0 == ValidationResult
        result1 == IF suffix_lower(pdf_path.suffix) # ".pdf"
                   THEN add_warning(result0, "File extension is '"
                            \o pdf_path.suffix \o "', expected '.pdf'")
                   ELSE result0
        result2 == IF file_size(found) > max_pdf_size_mb * 1024 * 1024
                   THEN add_warning(result1,
                            "PDF file is large ("
                                \o format_1f(RDiv(RDiv(R(file_size(found)),
                                                       R(1024)), R(1024)))
                                \o "MB), processing may be slow")
                   ELSE result1
    IN  IF found = "absent"
            THEN add_error(result0,
                     "PDF file not found: " \o path_text(pdf_path))
        ELSE IF found = "directory"
            THEN add_error(result0,
                     "Path is not a file: " \o path_text(pdf_path))
        ELSE IF file_size(found) < min_pdf_size_bytes
            THEN add_error(result1,
                     "PDF file is too small (" \o ToString(file_size(found))
                         \o " bytes), may be empty")
        ELSE IF found = "not_pdf"
            THEN add_error(result2, "File does not appear to be a valid PDF")
        ELSE IF found = "unreadable"
            THEN add_error(result2,
                     "Cannot read PDF file: [Errno 13] Permission denied: '"
                         \o path_text(pdf_path) \o "'")
        ELSE result2

\* DataValidationSkill.validate_self_grade on an int
validate_self_grade(grade) ==
    IF ~(0 <= grade /\ grade <= 100)
        THEN add_error(ValidationResult,
                 "Grade must be between 0 and 100, got " \o ToString(grade))
    ELSE IF grade = 100
        THEN add_warning(ValidationResult,
                 "Self-grade is 100 (perfect) - very strict evaluation will be applied")
    ELSE IF grade < 50
        THEN add_warning(ValidationResult,
                 "Self-grade is below 50 - consider providing improvement context")
    ELSE ValidationResult

\* DataValidationSkill.validate_grading_request
validate_grading_request(req, found) ==
    LET pdf_result == validate_pdf_input(req.pdf_path, found)
        grade_result == validate_self_grade(req.self_grade)
    IN  [is_valid |-> pdf_result.errors = <<>> /\ grade_result.errors = <<>>,
         errors |-> pdf_result.errors \o grade_result.errors,
         warnings |-> pdf_result.warnings \o grade_result.warnings]

\* ValidationAgent.execute: the file may be removed after exists() and
\* is_file() said yes, then stat() raises inside the try block
validation_agent_execute(req, found) ==
    IF found = "vanished"
        THEN handle_exception("FileNotFoundError",
                 "[Errno 2] No such file or directory: '"
                     \o path_text(req.pdf_path) \o "'")
    ELSE LET validation == validate_grading_request(req, found)
         IN  [success |-> TRUE,
              output |-> validation,
              error |-> "None",
              metadata |-> [errors_count |-> Len(validation.errors),
                            warnings_count |-> Len(validation.warnings)]]

(***************************************************************************)
(* The caller's steps: GradingRequest(...), OrchestratorAgent({}),         *)
(* ValidationAgent({}).execute(request)                                    *)
(***************************************************************************)
\* the attributes OrchestratorAgent.__init__ reads from system_config, in
\* the order it reads them
ConstructorAttributes == <<"parser", "scoring", "reporter", "cost_tracking">>

\* the first attribute the constructor reads that system_config does not
\* have
first_missing(system_config) ==
    LET missing == {k \in DOMAIN ConstructorAttributes :
                       ConstructorAttributes[k] \notin system_config.attributes}
    IN  CHOOSE k \in missing : \A j \in missing : k <= j

\* The caller before its first step: nothing raised, nothing returned.  Its
\* interpreter has PyMuPDF or pdfplumber installed or neither, and the
\* directory of the parser's cache is there or not.
Callers ==
    {[script |-> script, pc |-> "args", exception |-> NoException,
      result |-> NoResult, pdf_parser_available |-> available,
      parser_cache_dir |-> exists] :
        script \in Scripts, available \in BOOLEAN, exists \in BOOLEAN}

\* the caller builds the GradingRequest: validate_pdf_path and the bounds of
\* self_grade raise ValidationError, model_post_init fills in submission_id
ConstructRequest ==
    /\ caller.pc = "args"
    /\ LET errors == grading_request_errors(request)
       IN  IF DOMAIN errors # {}
           THEN /\ caller' = [caller EXCEPT
                        !.pc = "rejected",
                        !.exception = validation_error("GradingRequest", errors)]
                /\ UNCHANGED request
           ELSE /\ request' = grading_request(request)
                /\ caller' = [caller EXCEPT !.pc = "request"]
    /\ UNCHANGED <<scoring_vars, config, file, cache>>

\* OrchestratorAgent.__init__: load_config raises, or the sub-agents are
\* built from the attributes of the AutoGraderConfig it returns.  The
\* ParserAgent's PDFProcessingSkill raises RuntimeError when no PDF parser
\* is installed; otherwise the ParserAgent makes the directory of its cache.
\* AutoGraderConfig has no field reporter, so reading it raises
\* AttributeError and the constructor ends there for every configuration
\* that loads: no orchestrator exists and execute is never called.
OrchestratorInit ==
    /\ caller.script = "workflow"
    /\ caller.pc = "request"
    /\ \E loaded \in {load_config(config, compensated_sum)} :
          IF loaded.raised
          THEN caller' = [caller EXCEPT !.pc = "not constructed",
                                        !.exception = loaded.exception]
          ELSE IF ~caller.pdf_parser_available
          THEN caller' = [caller EXCEPT
                   !.pc = "not constructed",
                   !.exception =
                       [type |-> "RuntimeError", model |-> "None",
                        errors |-> <<"No PDF parser available. "
                                        \o "Install PyMuPDF or pdfplumber.">>]]
          ELSE caller' = [caller EXCEPT
                   !.pc = "not constructed",
                   !.parser_cache_dir = TRUE,
                   !.exception =
                       [type |-> "AttributeError",
                        model |-> loaded.system_config.type,
                        errors |->
                            <<no_attribute(loaded.system_config.type,
                                  ConstructorAttributes[
                                      first_missing(loaded.system_config)])>>]]
    /\ UNCHANGED <<scoring_vars, config, request, file, cache>>

\* ValidationAgent({}).execute(request)
Validate ==
    /\ caller.script = "validation"
    /\ caller.pc = "request"
    /\ caller' = [caller EXCEPT
            !.pc = "validated",
            !.result = validation_agent_execute(request, file)]
    /\ UNCHANGED <<scoring_vars, config, request, file, cache>>

\* The caller has the arguments of a request, the PDF is in some state on
\* disk and config/default.yaml is there or not.  A PDF that is not there
\* when the request is built stays away.
InitWorkflow ==
    /\ compensated_sum \in BOOLEAN
    /\ NoScoring
    /\ config \in ConfigFiles
    /\ request \in RequestArguments
    /\ file \in FileStates
    /\ ~request.pdf_path.exists => file = "absent"
    /\ caller \in Callers
    /\ NoCache

NextWorkflow ==
    \/ ConstructRequest
    \/ OrchestratorInit
    \/ Validate

SpecWorkflow == InitWorkflow /\ [][NextWorkflow]_vars

(***************************************************************************)
(* Claims.                                                                 *)
(***************************************************************************)
\* the floats of a sequence added one after the other, from 0.0
RECURSIVE Sigma(_)
Sigma(xs) ==
    IF xs = <<>> THEN R(0)
    ELSE RAdd(Sigma(SubSeq(xs, 1, Len(xs) - 1)), xs[Len(xs)])

\* the factor the configured table gives a severity (1.0 when it has none)
FactorOf(severity) ==
    IF severity \in DOMAIN severity_factors THEN severity_factors[severity]
    ELSE R(1)

\* the severity-dampened score of evaluation i
Dampened(i) == RMul(evaluations[i].score, FactorOf(evaluations[i].severity))

Weights == [i \in 1..Len(evaluations) |-> evaluations[i].weight]

\* C1: when the total weight is > 0, the final score before clamping and
\* rounding is sum(adjusted_i * weight_i) / sum(weight_i); weights
\* [0.2, 0.3, 0.5], scores [90, 80, 70], all severity strength, multiplier 1.0
\* give 77.00.
C1_WeightedAverage ==
    pc = "done" =>
        LET n == Len(evaluations)
            products ==
                [i \in 1..n |->
                    RMul(adjusted_score(evaluations[i], severity_factors,
                                        criticism_multiplier),
                         evaluations[i].weight)]
        IN  /\ RLt(R(0), Sigma(Weights)) =>
                  frame.final_score = RDiv(Sigma(products), Sigma(Weights))
            /\ (/\ evaluations = all_strength_evaluations
                /\ criticism_multiplier = R(1)
                /\ severity_factors = DefaultSeverityFactors)
               => result.success /\ result.output.final_score = R(77)

C1_Witness ==
    /\ pc = "done"
    /\ evaluations = all_strength_evaluations
    /\ criticism_multiplier = R(1)
    /\ severity_factors = DefaultSeverityFactors
    /\ frame.final_score = R(77)
    /\ result.output.final_score = R(77)

\* C2: the final_score of a returned GradingResult lies in [0, 100] and has at
\* most 2 decimal places.
C2_FinalScoreRange ==
    (pc = "done" /\ result.success) =>
        /\ RLe(R(0), result.output.final_score)
        /\ RLe(result.output.final_score, R(100))
        /\ Round2(result.output.final_score) = result.output.final_score

\* a run whose weighted average is above 100 before the clamp
C2_Witness ==
    /\ pc = "done"
    /\ result.success
    /\ RLt(R(100), frame.final_score)
    /\ result.output.final_score = R(100)

\* the table of section 4.1
MultiplierTable(grade) ==
    CASE grade >= 90 -> Frac(15, 10)
      [] grade \in 80..89 -> Frac(12, 10)
      [] grade \in 70..79 -> R(1)
      [] grade \in 60..69 -> Frac(8, 10)
      [] grade < 60 -> Frac(6, 10)

\* C3: for every integer self_grade in 0..100 the calculator returns 1.5 for
\* >= 90, 1.2 for 80..89, 1.0 for 70..79, 0.8 for 60..69 and 0.6 below 60; it
\* is total: phase 3 can run for every request.
C3_MultiplierTable ==
    /\ pc = "request" => ENABLED CalculateMultiplier
    /\ pc = "multiplied" =>
          /\ criticism_multiplier = MultiplierTable(self_grade)
          /\ criticism_multiplier \in
                {Frac(6, 10), Frac(8, 10), R(1), Frac(12, 10), Frac(15, 10)}

C3_Witness ==
    pc = "multiplied" /\ self_grade = 89 /\ criticism_multiplier = Frac(12, 10)

\* C4: with multiplier exactly 1.0 the adjusted score is score * factor of the
\* severity (defaults: critical 0.5, important 0.8, minor 0.95, strength 1.0).
C4_NoAdjustmentAtOne ==
    (pc = "done" /\ criticism_multiplier = R(1)) =>
        \A i \in 1..Len(evaluations) :
            /\ frame.adjusted_scores[i] = Dampened(i)
            /\ severity_factors = DefaultSeverityFactors =>
                  frame.adjusted_scores[i] =
                      RMul(evaluations[i].score,
                           CASE evaluations[i].severity = "critical" -> Frac(5, 10)
                             [] evaluations[i].severity = "important" -> Frac(8, 10)
                             [] evaluations[i].severity = "minor" -> Frac(95, 100)
                             [] evaluations[i].severity = "strength" -> R(1))

C4_Witness ==
    /\ pc = "done"
    /\ criticism_multiplier = R(1)
    /\ severity_factors = DefaultSeverityFactors
    /\ Len(evaluations) = 1
    /\ evaluations[1].severity = "minor"
    /\ evaluations[1].score = R(80)
    /\ frame.adjusted_scores[1] = R(76)

\* C5: for a dampened score s < 100 and multiplier m > 1.0 the adjusted score
\* is max(0, s - (100 - s) * (m - 1.0) * 0.2); score 90, severity minor,
\* weight 1.0, multiplier 1.5 give final_score 84.05.
C5_StrictPenalty ==
    pc = "done" =>
        /\ \A i \in 1..Len(evaluations) :
              (RLt(Dampened(i), R(100)) /\ RLt(R(1), criticism_multiplier)) =>
                  frame.adjusted_scores[i] =
                      RMax(R(0),
                           RSub(Dampened(i),
                                RMul(RMul(RSub(R(100), Dampened(i)),
                                          RSub(criticism_multiplier, R(1))),
                                     Frac(2, 10))))
        /\ (/\ Len(evaluations) = 1
            /\ evaluations[1].score = R(90)
            /\ evaluations[1].severity = "minor"
            /\ evaluations[1].weight = R(1)
            /\ criticism_multiplier = Frac(15, 10)
            /\ severity_factors = DefaultSeverityFactors)
           => result.success /\ result.output.final_score = Frac(8405, 100)

C5_Witness ==
    /\ pc = "done"
    /\ Len(evaluations) = 1
    /\ evaluations[1].score = R(90)
    /\ evaluations[1].severity = "minor"
    /\ evaluations[1].weight = R(1)
    /\ criticism_multiplier = Frac(15, 10)
    /\ severity_factors = DefaultSeverityFactors
    /\ frame.adjusted_scores[1] = Frac(8405, 100)

\* C6: for a dampened score s < 100 and multiplier 0 < m < 1.0 the adjusted
\* score is min(100, s + (100 - s) * (1.0 - m) * 0.3); score 70, severity
\* minor, weight 1.0, multiplier 0.6 give final_score 70.52.
C6_LenientBonus ==
    pc = "done" =>
        /\ \A i \in 1..Len(evaluations) :
              (RLt(Dampened(i), R(100)) /\ RLt(criticism_multiplier, R(1))) =>
                  frame.adjusted_scores[i] =
                      RMin(R(100),
                           RAdd(Dampened(i),
                                RMul(RMul(RSub(R(100), Dampened(i)),
                                          RSub(R(1), criticism_multiplier)),
                                     Frac(3, 10))))
        /\ (/\ Len(evaluations) = 1
            /\ evaluations[1].score = R(70)
            /\ evaluations[1].severity = "minor"
            /\ evaluations[1].weight = R(1)
            /\ criticism_multiplier = Frac(6, 10)
            /\ severity_factors = DefaultSeverityFactors)
           => result.success /\ result.output.final_score = Frac(7052, 100)

C6_Witness ==
    /\ pc = "done"
    /\ Len(evaluations) = 1
    /\ evaluations[1].score = R(70)
    /\ evaluations[1].severity = "minor"
    /\ evaluations[1].weight = R(1)
    /\ criticism_multiplier = Frac(6, 10)
    /\ severity_factors = DefaultSeverityFactors
    /\ frame.adjusted_scores[1] = Frac(7052, 100)

\* C7: for a fixed score and severity the adjusted score is non-increasing as
\* the multiplier grows over [1.0, oo) and non-decreasing as it shrinks over
\* (0, 1.0]; so a multiplier > 1 never yields a higher final score, and a
\* multiplier < 1 never a lower one, than multiplier 1.0 on the same
\* evaluations.
C7_Monotone ==
    pc = "done" =>
        /\ \A i \in 1..Len(evaluations) : \A m \in Multipliers :
              LET other == adjusted_score(evaluations[i], severity_factors, m)
              IN  /\ (RLe(R(1), criticism_multiplier) /\ RLe(criticism_multiplier, m))
                        => RLe(other, frame.adjusted_scores[i])
                  /\ (RLe(m, criticism_multiplier) /\ RLe(criticism_multiplier, R(1)))
                        => RLe(frame.adjusted_scores[i], other)
        /\ result.success =>
              LET at_one == execute(severity_factors, evaluations, R(1),
                                    self_grade).result.output.final_score
              IN  /\ RLt(R(1), criticism_multiplier)
                        => RLe(result.output.final_score, at_one)
                  /\ RLt(criticism_multiplier, R(1))
                        => RLe(at_one, result.output.final_score)

\* a strict multiplier lowers the adjusted score, a stricter one lowers it more
C7_Witness ==
    /\ pc = "done"
    /\ criticism_multiplier = Frac(15, 10)
    /\ Len(evaluations) = 1
    /\ evaluations[1].score = R(60)
    /\ RLt(frame.adjusted_scores[1], Dampened(1))
    /\ RLt(adjusted_score(evaluations[1], severity_factors, R(2)),
           frame.adjusted_scores[1])
    /\ RLt(result.output.final_score,
           execute(severity_factors, evaluations, R(1),
                   self_grade).result.output.final_score)

\* C8: a dampened score s >= 100 is returned unchanged for every multiplier;
\* with the default factors this happens only for severity strength at raw
\* score 100.
C8_PerfectUnchanged ==
    pc = "done" =>
        \A i \in 1..Len(evaluations) :
            RLe(R(100), Dampened(i)) =>
                /\ frame.adjusted_scores[i] = Dampened(i)
                /\ severity_factors = DefaultSeverityFactors =>
                      /\ evaluations[i].severity = "strength"
                      /\ evaluations[i].score = R(100)

\* a dampened score above 100 under a multiplier other than 1.0
C8_Witness ==
    /\ pc = "done"
    /\ Len(evaluations) = 1
    /\ RLt(R(100), Dampened(1))
    /\ criticism_multiplier = Frac(15, 10)
    /\ frame.adjusted_scores[1] = Dampened(1)

\* C9: the adjusted score (severity dampening, then criticism adjustment) is
\* within [0, 100] for every score in [0, 100], every severity, every
\* multiplier > 0 and every configured severity-factor table.
C9_AdjustedInRange ==
    pc = "done" =>
        \A i \in 1..Len(evaluations) :
            /\ RLe(R(0), frame.adjusted_scores[i])
            /\ RLe(frame.adjusted_scores[i], R(100))

\* C10: when the weights sum to 0 (the empty list included) execute succeeds
\* with final_score 0.0 and no division is made; for the empty list the
\* breakdown is empty.
C10_ZeroWeight ==
    (pc = "done" /\ Sigma(Weights) = R(0)) =>
        /\ result.success
        /\ frame.final_score = R(0)
        /\ result.output.final_score = R(0)
        /\ evaluations = <<>> => DOMAIN result.output.breakdown = {}

\* two evaluations, both of weight 0
C10_Witness ==
    /\ pc = "done"
    /\ Len(evaluations) = 2
    /\ Sigma(Weights) = R(0)
    /\ result.success
    /\ result.output.final_score = R(0)

\* C11: execute never ends in an error on well-formed input (every score in
\* [0, 100], every weight in [0, 1], a valid severity, multiplier > 0,
\* self_grade in 0..100): it returns a successful result carrying a
\* GradingResult, whatever the weights sum to and however the criteria fall
\* into categories.
C11_NoErrorOnWellFormed ==
    pc = "done" =>
        /\ result.success
        /\ result.error = "None"

\* the declared bounds of section 3
InBounds(e) ==
    /\ RLe(R(0), e.score) /\ RLe(e.score, R(100))
    /\ RLe(R(0), e.weight) /\ RLe(e.weight, R(1))
    /\ e.severity \in {"critical", "important", "minor", "strength"}

\* the arguments violate a declared bound
OutOfBounds ==
    \/ \E i \in 1..Len(evaluations) : ~InBounds(evaluations[i])
    \/ ~RLt(R(0), criticism_multiplier)
    \/ self_grade \notin 0..100

\* C12: input that violates a declared bound (score outside [0, 100], weight
\* outside [0, 1], self_grade outside 0..100, an unknown severity, a
\* multiplier <= 0) produces no GradingResult: the constructors raise an error
\* that names an offending field with the value given, the values are passed
\* on unchanged (never clamped or defaulted) and execute is never run on them.
C12_RejectsOutOfBounds ==
    [][(pc = "raw" /\ OutOfBounds) =>
          /\ pc' = "rejected"
          /\ result' = NoResult
          /\ exception'.type = "ValidationError"
          /\ DOMAIN exception'.errors # {}
          /\ \A f \in DOMAIN exception'.errors :
                \/ /\ f = "self_grade"
                   /\ self_grade \notin 0..100
                   /\ exception'.errors[f] = R(self_grade)
                \/ /\ f = "criticism_multiplier"
                   /\ ~RLt(R(0), criticism_multiplier)
                   /\ exception'.errors[f] = criticism_multiplier
                \/ /\ f \in {"score", "weight", "severity"}
                   /\ \E i \in 1..Len(evaluations) :
                         /\ ~InBounds(evaluations[i])
                         /\ exception'.errors[f] = evaluations[i][f]
                         /\ ~InBounds([valid_evaluation EXCEPT
                                          ![f] = evaluations[i][f]])
          /\ UNCHANGED <<evaluations, criticism_multiplier, self_grade>>
          /\ ~(ENABLED Execute)']_vars

\* a score just above 100 in the second evaluation is named in the error
C12_Witness ==
    /\ pc = "rejected"
    /\ Len(evaluations) = 2
    /\ evaluations[2].score = Frac(10001, 100)
    /\ DOMAIN exception.errors = {"score"}
    /\ exception.errors["score"] = Frac(10001, 100)
    /\ result = NoResult

\* the category the fixed table gives evaluation i
TableCategory(i) ==
    LET id == evaluations[i].criterion_id
    IN  IF id \in DOMAIN category_map THEN category_map[id] ELSE "Other"

\* the positions of the input list that belong to category c
Positions(c) == {i \in 1..Len(evaluations) : TableCategory(i) = c}

\* the k-th smallest position of category c
Position(c, k) ==
    CHOOSE i \in Positions(c) : Cardinality({j \in Positions(c) : j <= i}) = k

\* C13: the breakdown partitions the input evaluations: every evaluation is in
\* exactly one category's criteria list, in input order, namely the category
\* the criterion_id -> category_name table gives it or "Other" when the table
\* has no entry; nothing is dropped or duplicated and no category is empty.
C13_BreakdownPartitions ==
    (pc = "done" /\ result.success) =>
        LET b == result.output.breakdown
        IN  /\ \A i \in 1..Len(evaluations) : TableCategory(i) \in DOMAIN b
            /\ \A c \in DOMAIN b :
                  /\ b[c].category_name = c
                  /\ b[c].criteria # <<>>
                  /\ Len(b[c].criteria) = Cardinality(Positions(c))
                  /\ \A k \in 1..Len(b[c].criteria) :
                        b[c].criteria[k] = evaluations[Position(c, k)]

\* the test fixture: one mapped criterion and two that fall into "Other"
C13_Witness ==
    /\ pc = "done"
    /\ result.success
    /\ evaluations = sample_evaluations
    /\ DOMAIN result.output.breakdown = {"Documentation", "Other"}
    /\ result.output.breakdown["Other"].criteria =
          <<sample_evaluations[2], sample_evaluations[3]>>

\* C14: each category's weighted_score is sum(score_i * weight_i) /
\* sum(weight_i) over its members, rounded to 2 decimals, from the raw scores
\* (no severity dampening, no criticism adjustment), and 0.0 when the
\* category's total weight is 0; total_weight is the sum of the members'
\* weights; the breakdown is the same for every criticism multiplier.
C14_CategoryAverage ==
    (pc = "done" /\ result.success) =>
        LET b == result.output.breakdown
        IN  /\ \A c \in DOMAIN b :
                  LET n == Cardinality(Positions(c))
                      weights == [k \in 1..n |-> evaluations[Position(c, k)].weight]
                      products ==
                          [k \in 1..n |->
                              RMul(evaluations[Position(c, k)].score,
                                   evaluations[Position(c, k)].weight)]
                  IN  /\ b[c].total_weight = builtin_sum(weights, compensated_sum)
                      /\ b[c].weighted_score =
                            IF b[c].total_weight = R(0) THEN R(0)
                            ELSE Round2(RDiv(builtin_sum(products, compensated_sum),
                                             b[c].total_weight))
            /\ \A call \in ListCalls :
                  call[2] # criticism_multiplier =>
                      LET other == execute(severity_factors, evaluations, call[2],
                                           self_grade)
                      IN  /\ other.result.success
                          /\ other.result.output.breakdown = b

\* a category of two members with different scores and severities, scored
\* under a strict multiplier
C14_Witness ==
    /\ pc = "done"
    /\ result.success
    /\ evaluations = sample_evaluations
    /\ criticism_multiplier = Frac(15, 10)
    /\ result.output.breakdown["Other"].total_weight = Frac(8, 10)
    /\ result.output.breakdown["Other"].weighted_score = Frac(7375, 100)
    /\ result.output.final_score # R(77)

\* the score execute hands to the message: clamped, not yet rounded
Narrated == result.metadata.final_score

\* |final_score - self_grade| of the message
Distance == RAbs(RSub(Narrated, R(self_grade)))

\* C15: the accuracy phrase of the comparison message depends on
\* |final_score - self_grade| alone: < 2 "very accurate", otherwise < 5
\* "quite accurate", otherwise < 10 "reasonably accurate", otherwise "somewhat
\* inaccurate"; final score 82.5 against self grade 85 at multiplier 1.0 says
\* "quite accurate".
C15_AccuracyBands ==
    (pc = "done" /\ result.success) =>
        LET accuracy == result.output.comparison_message.accuracy
        IN  /\ accuracy =
                  CASE RLt(Distance, R(2)) -> "very accurate"
                    [] RLe(R(2), Distance) /\ RLt(Distance, R(5)) -> "quite accurate"
                    [] RLe(R(5), Distance) /\ RLt(Distance, R(10))
                          -> "reasonably accurate"
                    [] RLe(R(10), Distance) -> "somewhat inaccurate"
            /\ (Narrated = Frac(825, 10) /\ self_grade = 85
                    /\ criticism_multiplier = R(1))
                  => accuracy = "quite accurate"

\* narrate(82.5, 85, 1.0)
C15_Witness ==
    /\ pc = "done"
    /\ result.success
    /\ Narrated = Frac(825, 10)
    /\ self_grade = 85
    /\ criticism_multiplier = R(1)
    /\ result.output.comparison_message.accuracy = "quite accurate"

\* C16: the directional clause is "higher than your self-assessment" with
\* "You were more modest than necessary." exactly when final_score - self_grade
\* > 5, "lower than your self-assessment" with "You may have overestimated
\* some aspects." exactly when it is < -5, and "very close to your
\* self-assessment" with "Your self-evaluation was well-calibrated." for every
\* difference in [-5, 5], both ends included.
C16_DirectionClause ==
    (pc = "done" /\ result.success) =>
        LET message == result.output.comparison_message
            difference == RSub(Narrated, R(self_grade))
            higher ==
                /\ message.direction = "higher than your self-assessment by"
                /\ message.interpretation = "You were more modest than necessary."
            lower ==
                /\ message.direction = "lower than your self-assessment by"
                /\ message.interpretation = "You may have overestimated some aspects."
            close ==
                /\ message.direction = "very close to your self-assessment"
                /\ message.interpretation = "Your self-evaluation was well-calibrated."
        IN  /\ higher <=> RLt(R(5), difference)
            /\ lower <=> RLt(difference, R(-5))
            /\ close <=> (RLe(R(-5), difference) /\ RLe(difference, R(5)))

\* a final score exactly 5 below the self grade is still "very close"
C16_Witness ==
    /\ pc = "done"
    /\ result.success
    /\ RSub(Narrated, R(self_grade)) = R(-5)
    /\ result.output.comparison_message.direction =
          "very close to your self-assessment"
    /\ result.output.comparison_message.interpretation =
          "Your self-evaluation was well-calibrated."

\* C17: a multiplier annotation is appended exactly when the multiplier is
\* >= 1.2 or <= 0.8: >= 1.5 "very strict standards", [1.2, 1.5) "strict
\* standards", <= 0.6 "supportive standards", (0.6, 0.8] "encouraging
\* standards"; for 0.8 < multiplier < 1.2 nothing is appended.
C17_MultiplierAnnotation ==
    (pc = "done" /\ result.success) =>
        LET note == result.output.comparison_message.multiplier_note
            m == criticism_multiplier
        IN  /\ (note # "") <=> (RLe(Frac(12, 10), m) \/ RLe(m, Frac(8, 10)))
            /\ RLe(Frac(15, 10), m) =>
                  note = " (evaluated with very strict standards due to high self-grade)"
            /\ (RLe(Frac(12, 10), m) /\ RLt(m, Frac(15, 10))) =>
                  note = " (evaluated with strict standards)"
            /\ RLe(m, Frac(6, 10)) =>
                  note = " (evaluated with supportive standards)"
            /\ (RLt(Frac(6, 10), m) /\ RLe(m, Frac(8, 10))) =>
                  note = " (evaluated with encouraging standards)"

\* the lower end of the strict band
C17_Witness ==
    /\ pc = "done"
    /\ result.success
    /\ criticism_multiplier = Frac(12, 10)
    /\ result.output.comparison_message.multiplier_note =
          " (evaluated with strict standards)"

\* C18: the evaluations list of the returned GradingResult equals the input
\* evaluations list: same elements, same order, every score, weight and
\* severity unchanged; dampened or adjusted scores are never written back.
C18_EvaluationsPreserved ==
    (pc = "done" /\ result.success) =>
        /\ result.output.evaluations = evaluations
        /\ history[Len(history)].evaluations = evaluations
        /\ Len(result.output.evaluations) = Len(frame.adjusted_scores)
        /\ \A i \in 1..Len(evaluations) :
              /\ result.output.evaluations[i].score = evaluations[i].score
              /\ result.output.evaluations[i].weight = evaluations[i].weight
              /\ result.output.evaluations[i].severity = evaluations[i].severity

\* a run whose adjusted scores differ from the raw ones
C18_Witness ==
    /\ pc = "done"
    /\ result.success
    /\ evaluations = sample_evaluations
    /\ criticism_multiplier = Frac(15, 10)
    /\ \A i \in 1..Len(evaluations) :
          frame.adjusted_scores[i] # evaluations[i].score
    /\ result.output.evaluations = sample_evaluations

\* C20: with criticism multiplier 1.0 the final score is within 0.1 of the
\* weight-normalised average of the raw criterion scores, sum(score_i *
\* weight_i) / sum(weight_i), for evaluations of mixed severities: weights
\* 0.2/0.3/0.5 with scores 90/80/70 and severities strength/minor/important
\* give 77.0.
C20_RawAverageAtOne ==
    (/\ pc = "done"
     /\ result.success
     /\ criticism_multiplier = R(1)
     /\ severity_factors = DefaultSeverityFactors
     /\ RLt(R(0), Sigma(Weights))) =>
        LET products ==
                [i \in 1..Len(evaluations) |->
                    RMul(evaluations[i].score, evaluations[i].weight)]
            raw_average == RDiv(Sigma(products), Sigma(Weights))
        IN  /\ RLt(RAbs(RSub(result.output.final_score, raw_average)),
                   Frac(1, 10))
            /\ evaluations = sample_evaluations =>
                  RLt(RAbs(RSub(result.output.final_score, R(77))), Frac(1, 10))

\* C21 as stated: for a non-empty evaluations list the breakdown is non-empty
\* and every entry has category_name equal to its key, total_weight > 0,
\* weighted_score >= 0 and at least one criterion.
C21_BreakdownPositive ==
    (pc = "done" /\ result.success /\ evaluations # <<>>) =>
        LET b == result.output.breakdown
        IN  /\ DOMAIN b # {}
            /\ \A c \in DOMAIN b :
                  /\ b[c].category_name = c
                  /\ RLt(R(0), b[c].total_weight)
                  /\ RLe(R(0), b[c].weighted_score)
                  /\ Len(b[c].criteria) >= 1

\* C21 amended: for a non-empty evaluations list every returned breakdown is
\* non-empty and every entry has category_name equal to its key, total_weight
\* >= 0 (> 0 exactly when one of its criteria has a positive weight),
\* weighted_score >= 0 and at least one criterion.
C21_BreakdownNonEmpty ==
    (pc = "done" /\ result.success /\ evaluations # <<>>) =>
        LET b == result.output.breakdown
        IN  /\ DOMAIN b # {}
            /\ \A c \in DOMAIN b :
                  /\ b[c].category_name = c
                  /\ RLe(R(0), b[c].total_weight)
                  /\ RLt(R(0), b[c].total_weight) <=>
                        \E i \in Positions(c) : RLt(R(0), evaluations[i].weight)
                  /\ RLe(R(0), b[c].weighted_score)
                  /\ Len(b[c].criteria) >= 1

\* two categories, one of total weight 0 and one of positive total weight
C21_Witness ==
    /\ pc = "done"
    /\ result.success
    /\ Len(evaluations) = 2
    /\ DOMAIN result.output.breakdown = {"Documentation", "Other"}
    /\ result.output.breakdown["Documentation"].total_weight = R(0)
    /\ RLt(R(0), result.output.breakdown["Other"].total_weight)

\* the accuracy band of a distance
Band(distance) ==
    CASE RLt(distance, R(2)) -> "very accurate"
      [] RLe(R(2), distance) /\ RLt(distance, R(5)) -> "quite accurate"
      [] RLe(R(5), distance) /\ RLt(distance, R(10)) -> "reasonably accurate"
      [] RLe(R(10), distance) -> "somewhat inaccurate"

\* C28: the comparison_message of a GradingResult is the narration of that
\* result's final_score (clamped, rounded to 2 decimals), self_grade and
\* criticism_multiplier: its accuracy band and its directional clause agree
\* with the bands result.final_score - result.self_grade falls in.
C28_MessageMatchesResult ==
    (pc = "done" /\ result.success) =>
        LET output == result.output
            difference == RSub(output.final_score, R(output.self_grade))
            message == output.comparison_message
        IN  /\ message.accuracy = Band(RAbs(difference))
            /\ message.direction =
                  IF RLt(R(5), difference)
                      THEN "higher than your self-assessment by"
                  ELSE IF RLt(difference, R(-5))
                      THEN "lower than your self-assessment by"
                  ELSE "very close to your self-assessment"

(***************************************************************************)
(* The workflow: its callers                                               *)
(***************************************************************************)
\* the caller's script is over: a constructor raised or the agent returned
Ended == caller.pc \in {"rejected", "not constructed", "validated"}

\* what ValidationAgent.execute makes of the request and the file at
\* pdf_path
PassesValidation ==
    LET validation_result == validation_agent_execute(request, file)
    IN  validation_result.success /\ validation_result.output.is_valid

MentionsValidation(r) ==
    \/ Contains(r.error, "alidation")
    \/ "phase" \in DOMAIN r.metadata /\ r.metadata.phase = "validation"

\* C25: if the validation phase fails or reports the request invalid, the
\* orchestrator returns a failure result that mentions validation, and none
\* of the later phases is executed for that request: a caller that builds a
\* request validation does not pass and an orchestrator to run it ends with
\* such a result in hand, not with an exception.  The request is one with a
\* self grade in range, as in the test of the workflow, so that the PDF is
\* all that validation can object to.
C25_ValidationFailureStops ==
    (/\ caller.script = "workflow"
     /\ Ended
     /\ request.self_grade \in 0..100
     /\ ~PassesValidation) =>
        /\ caller.exception = NoException
        /\ ~caller.result.success
        /\ MentionsValidation(caller.result)

\* C26: for a grading request whose self_grade is outside 0..100,
\* ValidationAgent.execute returns a successful agent result whose
\* ValidationResult is invalid and has at least one error; a validation
\* result is invalid exactly when it has errors, and the metadata counts
\* are the lengths of the two lists.  The request is one on an existing PDF,
\* as in the agent's tests, so that the grade is the only field in question.
C26_OutOfRangeGradeInvalid ==
    (caller.script = "validation" /\ Ended) =>
        /\ (/\ request.self_grade < 0 \/ request.self_grade > 100
            /\ request.pdf_path.exists
            /\ suffix_lower(request.pdf_path.suffix) = ".pdf") =>
              /\ caller.pc = "validated"
              /\ caller.result.success
              /\ ~caller.result.output.is_valid
              /\ Len(caller.result.output.errors) >= 1
        /\ (caller.pc = "validated" /\ caller.result.success) =>
              /\ caller.result.output.is_valid <=>
                    caller.result.output.errors = <<>>
              /\ caller.result.metadata.errors_count =
                    Len(caller.result.output.errors)
              /\ caller.result.metadata.warnings_count =
                    Len(caller.result.output.warnings)

(***************************************************************************)
(* Claim about the cache, checked under SpecCache.                         *)
(***************************************************************************)
\* C27: for a CachingSkill with ttl_seconds > 0 and a key whose file state
\* does not change, get(key) returns the value of the most recent set(key, .)
\* made through any instance sharing the cache directory, as long as the
\* entry's age is at most ttl_seconds and it was not deleted; once the age
\* exceeds ttl_seconds, get(key) returns None and removes the entry; get of a
\* key never set returns None.
C27_GetReturnsLastSet ==
    cache.last_get.key # "None" =>
        LET g == cache.last_get
        IN  /\ (g.live /\ g.age <= ttl_seconds[g.instance]) =>
                  g.returned = g.value
            /\ (g.live /\ g.age > ttl_seconds[g.instance]) =>
                  g.returned = NoneValue /\ g.removed
            /\ ~g.live => g.returned = NoneValue

=============================================================================
